---- MODULE Spec2Model ----
(***************************************************************************)
(* Model of the reconciliation engine of craft-docs-proxmox                *)
(* (src/src/craft_proxmox/sync.py, class SyncEngine) together with the two *)
(* collaborators it talks to: the inventory source (ProxmoxClient) and the *)
(* document store (CraftClient).                                           *)
(*                                                                         *)
(* Text is modelled as a sequence of tokens; NL is the line break.  A      *)
(* token is an atom of the markdown the engine writes or scans ("VMID:",   *)
(* a run of '#', a run of digits, a name, a line of user notes).           *)
(***************************************************************************)
EXTENDS Integers, Sequences, FiniteSets, TLC

VARIABLES
    pc,         \* position of the run inside sync_incremental / sync
    mode,       \* entry point called by the CLI: "incremental" or "full"
    config,     \* the SyncConfig options of the run: group_by, include_stopped
    inventory,  \* the live inventory at the source (input of the run)
    cluster,    \* the ProxmoxCluster fetched by get_cluster
    doc,        \* the document store: top-level blocks of the target document
    doc0,       \* the document as it was when the run started
    nextId,     \* next block identifier the store hands out
    existing,   \* existing_blocks: dict in insertion order
    preserved,  \* preserved_notes: key -> notes text
    i,          \* index of the loop the run is in
    n,          \* index of the node loop of _sync_grouped_by_node
    result,     \* the result dictionary of the run
    ops,        \* history: every call issued to the source or the store
    fails,      \* number of collaborator failures so far in this run
    raised      \* TRUE when an exception left sync / sync_incremental

vars == <<pc, mode, config, inventory, cluster, doc, doc0, nextId, existing,
          preserved, i, n, result, ops, fails, raised>>

----------------------------------------------------------------------------
(* Bounds of the model *)

\* most top-level blocks of the document at the start of a run
MaxBlocks == 2
\* most collaborator failures (source or store) injected into one run
MaxFailures == 1
\* most backups recorded for one resource
MaxBackups == 2
\* most top-level blocks of a document read by the snapshot reader alone
MaxReaderBlocks == 2

----------------------------------------------------------------------------
(* Generic helpers *)

Range(s) == {s[k] : k \in DOMAIN s}

RECURSIVE Flatten(_)
Flatten(ss) == IF ss = <<>> THEN <<>> ELSE Head(ss) \o Flatten(Tail(ss))

\* all sequences without repetition over S of length at most m
RECURSIVE DistinctSeqs(_, _)
DistinctSeqs(S, m) ==
    IF m = 0 THEN {<<>>}
    ELSE {<<>>} \cup UNION {{<<x>> \o t : t \in DistinctSeqs(S \ {x}, m - 1)} : x \in S}

\* sequences over S of length at most m
RECURSIVE SeqsUpTo(_, _)
SeqsUpTo(S, m) ==
    IF m = 0 THEN {<<>>}
    ELSE {<<>>} \cup {<<x>> \o t : x \in S, t \in SeqsUpTo(S, m - 1)}

\* sorted(xs, key=lambda v: v.vmid): stable insertion sort on vmid
RECURSIVE InsertByVmid(_, _)
InsertByVmid(x, s) ==
    IF s = <<>> THEN <<x>>
    ELSE IF Head(s).vmid <= x.vmid THEN <<Head(s)>> \o InsertByVmid(x, Tail(s))
    ELSE <<x>> \o s

RECURSIVE SortedByVmid(_)
SortedByVmid(s) ==
    IF s = <<>> THEN <<>>
    ELSE InsertByVmid(s[Len(s)], SortedByVmid(SubSeq(s, 1, Len(s) - 1)))

----------------------------------------------------------------------------
(* Text *)

NL == "\n"
SP == " "
HashRuns == {"#", "##", "###"}
Icons == {"WARN", "ALARM"}
PLACEHOLDER == "*Add your notes, runbooks, and documentation here...*"
NoNotesSaved == "*No notes were saved for this resource.*"

\* the numeric ids of the model and their decimal text (str(int) / int(str))
ResourceIds == {100, 200, 999}
ToStr(v) == CASE v = 100 -> "100" [] v = 200 -> "200" [] v = 999 -> "999"
Digits == {ToStr(v) : v \in ResourceIds}
ToInt(s) == CHOOSE v \in ResourceIds : ToStr(v) = s

\* the decimal text of a small count
CountStr(v) == <<"0", "1", "2", "3", "4", "5", "6", "7", "8", "9">>[v + 1]

\* "\n".join(items)
RECURSIVE JoinNL(_)
JoinNL(items) ==
    IF items = <<>> THEN <<>>
    ELSE IF Len(items) = 1 THEN items[1]
    ELSE items[1] \o <<NL>> \o JoinNL(Tail(items))

\* text.split("\n")
RECURSIVE SplitNL(_, _)
SplitNL(text, cur) ==
    IF text = <<>> THEN <<cur>>
    ELSE IF Head(text) = NL THEN <<cur>> \o SplitNL(Tail(text), <<>>)
    ELSE SplitNL(Tail(text), Append(cur, Head(text)))

\* text.strip() is empty
IsBlank(line) == \A k \in DOMAIN line : line[k] = SP

\* Replace that appends new after old and leaves old in place
RECURSIVE ReplaceAppends(_, _, _)
ReplaceAppends(text, old, new) ==
    IF text = <<>> THEN <<>>
    ELSE (IF Head(text) = old THEN <<old, NL>> \o new ELSE <<Head(text)>>)
         \o ReplaceAppends(Tail(text), old, new)

\* str.replace(old, new) for a one-token old: every occurrence is replaced
RECURSIVE Replace(_, _, _)
Replace(text, old, new) ==
    IF text = <<>> THEN <<>>
    ELSE (IF Head(text) = old THEN new ELSE <<Head(text)>>)
         \o Replace(Tail(text), old, new)

\* text.strip(): leading and trailing blanks removed
RECURSIVE Strip(_)
Strip(t) ==
    IF t = <<>> THEN <<>>
    ELSE IF Head(t) = SP THEN Strip(Tail(t))
    ELSE IF t[Len(t)] = SP THEN Strip(SubSeq(t, 1, Len(t) - 1))
    ELSE t

\* MarkdownBuilder.heading(text, level)
Heading(text, level) ==
    <<(CASE level = 1 -> "#" [] level = 2 -> "##" [] OTHER -> "###"), SP>> \o text

----------------------------------------------------------------------------
(* Data model: models.py *)

NodeNames == <<"pve1", "pve2">>

\* the resources the inventory source can report (ProxmoxVM / ProxmoxContainer)
\* Optional[...] = None
None == -1000000

\* fractions (cpu_usage, memory_usage) and percentages are kept in thousandths
Unit == 1000

\* backup_info: Optional[BackupInfo] = None, and a BackupInfo with its backups
NoBackupInfo == [known |-> FALSE, backups |-> <<>>]

BackupInfo(backups) == [known |-> TRUE, backups |-> backups]

\* the metrics of a resource as get_cluster reports them: nothing is known but
\* the status, there are no tags, and no alert has been evaluated (alerts:
\* default_factory=list)
NoMetrics ==
    [cpu_usage |-> None, memory_usage |-> None, backup_info |-> NoBackupInfo,
     status |-> "running", tags |-> <<>>, alerts |-> <<>>]

\* a resource record: identity fields and metrics
Resource(kind, vmid, name, hostname, node, m) ==
    [kind |-> kind, vmid |-> vmid, name |-> name, hostname |-> hostname, node |-> node,
     cpu_usage |-> m.cpu_usage, memory_usage |-> m.memory_usage,
     backup_info |-> m.backup_info, status |-> m.status, tags |-> m.tags,
     alerts |-> m.alerts]

\* VM 100 runs at 96% CPU
VMCatalog ==
    { Resource("vm", 100, "web", "", "pve1", [NoMetrics EXCEPT !.cpu_usage = 960]),
      Resource("vm", 999, "old", "", "pve2", NoMetrics) }

CTCatalog ==
    { Resource("ct", 200, "db", "dbhost", "pve1", NoMetrics) }

Catalog == VMCatalog \cup CTCatalog

\* display_name of a container looking at the hostname before the name
display_name_hostname_first(r) ==
    IF r.kind = "vm"
    THEN (IF r.name # "" THEN <<r.name>> ELSE <<"VM-", ToStr(r.vmid)>>)
    ELSE (IF r.hostname # "" THEN <<r.hostname>>
          ELSE IF r.name # "" THEN <<r.name>>
          ELSE <<"CT-", ToStr(r.vmid)>>)

\* ProxmoxVM.display_name / ProxmoxContainer.display_name; "" stands for every
\* falsy name or hostname (None, "")
display_name(r) ==
    IF r.kind = "vm"
    THEN (IF r.name # "" THEN <<r.name>> ELSE <<"VM-", ToStr(r.vmid)>>)
    ELSE (IF r.name # "" THEN <<r.name>>
          ELSE IF r.hostname # "" THEN <<r.hostname>>
          ELSE <<"CT-", ToStr(r.vmid)>>)

\* resource_id with the VM prefix used for containers too
resource_id_vm_prefix(r) == <<"vm", ToStr(r.vmid)>>

\* f"vm-{vm.vmid}" / f"ct-{ct.vmid}": the key of existing_blocks
resource_id(r) == <<r.kind, ToStr(r.vmid)>>

\* the marker of a kind in rendered text
Marker(kind) == IF kind = "vm" THEN "VMID:" ELSE "CTID:"

----------------------------------------------------------------------------
(* Alerts: AlertConfig (config.py), Backup / BackupInfo / StoragePool      *)
(* (models.py) and AlertEvaluator (sync.py)                                *)

cpu_warning_threshold == 80
cpu_critical_threshold == 95
memory_warning_threshold == 80
memory_critical_threshold == 95
storage_warning_threshold == 20
storage_critical_threshold == 10
backup_warning_days == 7
backup_critical_days == 30

\* seconds in a day, and dt.now().timestamp() in whole seconds
DaySeconds == 86400
Now == 1800000000

\* ResourceAlert(alert_type, severity, value)
Alert(type, severity, value) == [alert_type |-> type, severity |-> severity, value |-> value]

\* Backup.age_days: None when backup_time is None or 0, else whole days, floored
age_days(b) ==
    IF b.backup_time = None \/ b.backup_time = 0 THEN None
    ELSE (Now - b.backup_time) \div DaySeconds

\* "b.backup_time or 0", the key of max() in last_backup
TimeKey(b) == IF b.backup_time = None THEN 0 ELSE b.backup_time

\* last_backup taking the backup listed first
last_backup_first(info) == info.backups[1]

\* BackupInfo.last_backup for a non-empty list: max() keeps the first of the
\* backups with the greatest key
last_backup(info) ==
    LET bs == info.backups
        best == CHOOSE k \in DOMAIN bs :
                   /\ \A j \in DOMAIN bs : TimeKey(bs[j]) <= TimeKey(bs[k])
                   /\ \A j \in 1..(k - 1) : TimeKey(bs[j]) < TimeKey(bs[k])
    IN bs[best]

\* BackupInfo.last_backup_age_days: None when there is no backup
last_backup_age_days(info) ==
    IF info.backups = <<>> THEN None ELSE age_days(last_backup(info))

\* the two tiers tested one after the other, "if" in place of "elif"
UsageAlertsBothTiers(type, usage, warning, critical) ==
    IF usage = None THEN <<>>
    ELSE LET pct == usage * 100
         IN (IF pct >= critical * Unit THEN <<Alert(type, "critical", pct)>> ELSE <<>>)
            \o (IF pct >= warning * Unit THEN <<Alert(type, "warning", pct)>> ELSE <<>>)

\* the two-tier test of a usage fraction against its thresholds
UsageAlerts(type, usage, warning, critical) ==
    IF usage = None THEN <<>>
    ELSE LET pct == usage * 100
         IN IF pct >= critical * Unit THEN <<Alert(type, "critical", pct)>>
            ELSE IF pct >= warning * Unit THEN <<Alert(type, "warning", pct)>>
            ELSE <<>>

\* the backup part with exclusive comparisons, ">" in place of ">="
BackupAlertsExclusive(backup_info) ==
    IF ~backup_info.known THEN <<>>
    ELSE LET age == last_backup_age_days(backup_info)
         IN IF age = None THEN <<Alert("no_backup", "critical", None)>>
            ELSE IF age > backup_critical_days THEN <<Alert("old_backup", "critical", age)>>
            ELSE IF age > backup_warning_days THEN <<Alert("old_backup", "warning", age)>>
            ELSE <<>>

\* the backup part of evaluate_vm / evaluate_container
BackupAlerts(backup_info) ==
    IF ~backup_info.known THEN <<>>
    ELSE LET age == last_backup_age_days(backup_info)
         IN IF age = None THEN <<Alert("no_backup", "critical", None)>>
            ELSE IF age >= backup_critical_days THEN <<Alert("old_backup", "critical", age)>>
            ELSE IF age >= backup_warning_days THEN <<Alert("old_backup", "warning", age)>>
            ELSE <<>>

\* the info alert of a stopped resource
StoppedAlerts(alert_on_stopped, status) ==
    IF alert_on_stopped /\ status = "stopped"
    THEN <<Alert("stopped", "info", None)>> ELSE <<>>

\* AlertEvaluator.evaluate_vm
evaluate_vm(vm, alert_on_stopped) ==
    UsageAlerts("high_cpu", vm.cpu_usage, cpu_warning_threshold, cpu_critical_threshold)
    \o UsageAlerts("high_memory", vm.memory_usage,
                   memory_warning_threshold, memory_critical_threshold)
    \o BackupAlerts(vm.backup_info)
    \o StoppedAlerts(alert_on_stopped, vm.status)

\* an evaluator that looks at the status before the metrics
evaluate_container_stopped_first(ct, alert_on_stopped) ==
    StoppedAlerts(alert_on_stopped, ct.status)
    \o UsageAlerts("high_cpu", ct.cpu_usage, cpu_warning_threshold, cpu_critical_threshold)
    \o UsageAlerts("high_memory", ct.memory_usage,
                   memory_warning_threshold, memory_critical_threshold)
    \o BackupAlerts(ct.backup_info)

\* AlertEvaluator.evaluate_container
evaluate_container(ct, alert_on_stopped) ==
    UsageAlerts("high_cpu", ct.cpu_usage, cpu_warning_threshold, cpu_critical_threshold)
    \o UsageAlerts("high_memory", ct.memory_usage,
                   memory_warning_threshold, memory_critical_threshold)
    \o BackupAlerts(ct.backup_info)
    \o StoppedAlerts(alert_on_stopped, ct.status)

\* StoragePool.usage_percent, in thousandths of a percent: None when total_bytes
\* or used_bytes is None or 0
usage_percent(pool) ==
    IF pool.total_bytes \in {None, 0} \/ pool.used_bytes \in {None, 0} THEN None
    ELSE (pool.used_bytes * 100 * Unit) \div pool.total_bytes

\* StoragePool.free_percent
free_percent(pool) ==
    IF usage_percent(pool) = None THEN None ELSE 100 * Unit - usage_percent(pool)

\* evaluate_storage with exclusive comparisons, "<" in place of "<="
evaluate_storage_exclusive(pool) ==
    LET free == free_percent(pool)
    IN IF free = None THEN <<>>
       ELSE IF free < storage_critical_threshold * Unit
       THEN <<Alert("low_storage", "critical", free)>>
       ELSE IF free < storage_warning_threshold * Unit
       THEN <<Alert("low_storage", "warning", free)>>
       ELSE <<>>

\* AlertEvaluator.evaluate_storage
evaluate_storage(pool) ==
    LET free == free_percent(pool)
    IN IF free = None THEN <<>>
       ELSE IF free <= storage_critical_threshold * Unit
       THEN <<Alert("low_storage", "critical", free)>>
       ELSE IF free <= storage_warning_threshold * Unit
       THEN <<Alert("low_storage", "warning", free)>>
       ELSE <<>>

\* has_warnings true for any alert at all
has_warnings_any(r) == r.alerts # <<>>

\* ProxmoxVM.has_warnings / ProxmoxContainer.has_warnings
has_warnings(r) == \E k \in DOMAIN r.alerts : r.alerts[k].severity \in {"warning", "critical"}

\* ProxmoxVM.has_critical / ProxmoxContainer.has_critical
has_critical(r) == \E k \in DOMAIN r.alerts : r.alerts[k].severity = "critical"

\* one pass of _evaluate_alerts over a list of resources
EvaluateAll(rs, alert_on_stopped) ==
    [k \in DOMAIN rs |->
        [rs[k] EXCEPT !.alerts = IF rs[k].kind = "vm"
                                 THEN evaluate_vm(rs[k], alert_on_stopped)
                                 ELSE evaluate_container(rs[k], alert_on_stopped)]]

\* _evaluate_alerts(cluster): every VM and container gets its alerts
evaluate_alerts(c) ==
    [c EXCEPT !.vms = EvaluateAll(c.vms, FALSE), !.containers = EvaluateAll(c.containers, FALSE)]

----------------------------------------------------------------------------
(* Rendering: the _format_* methods of SyncEngine *)

\* _get_alert_indicator
get_alert_indicator(r) ==
    IF has_critical(r) THEN <<"ALARM", SP>>
    ELSE IF has_warnings(r) THEN <<"WARN", SP>>
    ELSE <<>>

\* the line of an alert in the alerts section ("- icon message")
AlertLine(a) ==
    <<"-", SP, IF a.severity = "critical" THEN "ALARM" ELSE "WARN", SP,
      a.alert_type, SP, a.severity>>

\* _format_alerts_section: "" unless some alert is a warning or critical
format_alerts_section(alerts) ==
    LET significant == SelectSeq(alerts, LAMBDA a : a.severity \in {"warning", "critical"})
    IN IF significant = <<>> THEN <<>>
       ELSE JoinNL(<< <<>>, <<"**Alerts:**">> >>
                   \o [k \in DOMAIN significant |-> AlertLine(significant[k])])

\* the number of alerts of a severity over the VMs and containers of a cluster
CountAlerts(c, severity) ==
    LET as == Flatten([k \in DOMAIN c.vms |-> c.vms[k].alerts])
              \o Flatten([k \in DOMAIN c.containers |-> c.containers[k].alerts])
    IN Len(SelectSeq(as, LAMBDA a : a.severity = severity))

\* _format_alerts_summary: the health line of the overview
format_alerts_summary(c) ==
    IF CountAlerts(c, "critical") = 0 /\ CountAlerts(c, "warning") = 0
    THEN <<"**Health:**", SP, "All systems healthy">>
    ELSE <<"**Health:**", SP>>
         \o (IF CountAlerts(c, "critical") > 0
             THEN <<"ALARM", SP, CountStr(CountAlerts(c, "critical")), SP, "critical">>
             ELSE <<>>)
         \o (IF CountAlerts(c, "warning") > 0
             THEN <<"WARN", SP, CountStr(CountAlerts(c, "warning")), SP, "warnings">>
             ELSE <<>>)

\* _format_vm_detail / _format_container_detail for a resource without specs,
\* network, backups, snapshots, tags or description
format_detail(r) ==
    JoinNL(<<
        Heading(get_alert_indicator(r) \o display_name(r), 1),
        <<>>,
        <<"[Running]", SP, "|", SP, Marker(r.kind), SP, ToStr(r.vmid), SP, "|", SP,
          "Node:", SP, r.node>>,
        <<>>,
        <<"[Open in Proxmox]">>,
        <<>> >>
        \o (IF r.alerts # <<>> THEN << format_alerts_section(r.alerts), <<>> >> ELSE <<>>)
        \o <<
        Heading(<<"Specifications">>, 2),
        <<>>,
        Heading(<<"Notes">>, 2),
        <<PLACEHOLDER>>,
        <<>> >>)

format_vm_detail(vm) == format_detail(vm)

format_container_detail(ct) == format_detail(ct)

\* _format_deleted_resource_banner
format_deleted_resource_banner(resource_type, vmid, last_seen) ==
    <<">", SP, "**RESOURCE NO LONGER EXISTS**", NL,
      ">", NL,
      ">", SP, "This", SP, resource_type, SP, "(", "ID:", SP, ToStr(vmid), ")", SP,
           "was not found in Proxmox during the last sync on", SP, last_seen, NL,
      ">", NL,
      ">", SP, "**Your notes below have been preserved.**", NL,
      NL,
      "---", NL,
      NL>>

\* the body shared by _format_deleted_vm_page and _format_deleted_container_page
format_deleted_page(kind, vmid, original_name, user_notes) ==
    JoinNL(<<
        Heading(<<"WARN", SP>> \o original_name \o <<SP, "(", "Deleted", ")">>, 1),
        <<>>,
        format_deleted_resource_banner(
            IF kind = "vm" THEN "VM" ELSE "Container", vmid, "NOW"),
        Heading(<<"Original Resource Info">>, 2),
        <<"-", SP, "**", "Type:", "**", SP,
          IF kind = "vm" THEN "Virtual Machine" ELSE "LXC Container">>,
        <<"-", SP, "**", Marker(kind), "**", SP, ToStr(vmid)>>,
        <<"-", SP, "**", "Status:", "**", SP, "Not found in Proxmox">>,
        <<>>,
        Heading(<<"Notes">>, 2),
        IF user_notes # <<>> THEN user_notes ELSE <<NoNotesSaved>>,
        <<>> >>)

format_deleted_vm_page(vmid, original_name, user_notes) ==
    format_deleted_page("vm", vmid, original_name, user_notes)

format_deleted_container_page(vmid, original_name, user_notes) ==
    format_deleted_page("ct", vmid, original_name, user_notes)

\* _format_cluster_overview, abridged to its headings, the sync stamp and counts
format_cluster_overview(c) ==
    JoinNL(<<
        Heading(<<"Proxmox Infrastructure Dashboard">>, 1),
        <<>>,
        <<"*Last synced: NOW*">>,
        <<>>,
        Heading(<<"Overview">>, 2),
        <<>>,
        <<"-", SP>> \o format_alerts_summary(c),
        <<>>,
        <<"---">> >>)

\* _format_node_section: the header of a node
format_node_section(node) ==
    JoinNL(<< <<>>, Heading(<<"Node:", SP, node>>, 2), <<>> >>)

\* _format_quick_reference: one table row per resource, sorted by vmid
RECURSIVE QuickRows(_)
QuickRows(rs) ==
    IF rs = <<>> THEN <<>>
    ELSE << <<"|", SP, ToStr(Head(rs).vmid), SP, "|", SP>> \o display_name(Head(rs))
            \o <<SP, "|">> >> \o QuickRows(Tail(rs))

format_quick_reference(c) ==
    JoinNL(<< <<>>, Heading(<<"Quick Reference">>, 2), <<>> >>
           \o (IF c.vms # <<>>
               THEN << Heading(<<"VMs">>, 3), <<"|", SP, "VMID", SP, "|", SP, "Name", SP, "|">> >>
                    \o QuickRows(SortedByVmid(c.vms)) \o << <<>> >>
               ELSE <<>>)
           \o (IF c.containers # <<>>
               THEN << Heading(<<"Containers">>, 3), <<"|", SP, "CTID", SP, "|", SP, "Name", SP, "|">> >>
                    \o QuickRows(SortedByVmid(c.containers)) \o << <<>> >>
               ELSE <<>>))

----------------------------------------------------------------------------
(* Tags and grouping: _parse_tags (proxmox_client.py), _group_resources_by_tag *)
(* and _group_resources_by_status (sync.py).  A dict is a sequence of its      *)
(* entries in insertion order.                                                 *)

\* tags.split(";")
RECURSIVE SplitSemi(_, _)
SplitSemi(text, cur) ==
    IF text = <<>> THEN <<cur>>
    ELSE IF Head(text) = ";" THEN <<cur>> \o SplitSemi(Tail(text), <<>>)
    ELSE SplitSemi(Tail(text), Append(cur, Head(text)))

\* _parse_tags: [] for no tags, else the parts between ";", stripped, the
\* empty ones left out; a tag is one token
parse_tags(raw) ==
    IF raw = <<>> THEN <<>>
    ELSE LET parts == SplitSemi(raw, <<>>)
             kept == SelectSeq([k \in DOMAIN parts |-> Strip(parts[k])], LAMBDA t : t # <<>>)
         IN [k \in DOMAIN kept |-> kept[k][1]]

\* get_vms / get_containers: every resource with its tags parsed
ParseAll(rs) == [k \in DOMAIN rs |-> [rs[k] EXCEPT !.tags = parse_tags(@)]]

\* "if key not in groups: groups[key] = ([], [])" and the append to the VMs or
\* to the containers of the group
GroupAdd(groups, key, r) ==
    LET with == IF \E k \in DOMAIN groups : groups[k].key = key THEN groups
                ELSE Append(groups, [key |-> key, vms |-> <<>>, containers |-> <<>>])
    IN [k \in DOMAIN with |->
           IF with[k].key # key THEN with[k]
           ELSE IF r.kind = "vm" THEN [with[k] EXCEPT !.vms = Append(@, r)]
           ELSE [with[k] EXCEPT !.containers = Append(@, r)]]

\* "for tag in tags": the resource is put under each of the keys in turn
RECURSIVE GroupUnder(_, _, _)
GroupUnder(groups, keys, r) ==
    IF keys = <<>> THEN groups
    ELSE GroupUnder(GroupAdd(groups, Head(keys), r), Tail(keys), r)

\* "tags = vm.tags if vm.tags else ["Untagged"]"
TagKeys(r) == IF r.tags # <<>> THEN r.tags ELSE <<"Untagged">>

\* "for vm in vms" / "for ct in containers" of _group_resources_by_tag
RECURSIVE GroupByTag(_, _)
GroupByTag(groups, rs) ==
    IF rs = <<>> THEN groups
    ELSE GroupByTag(GroupUnder(groups, TagKeys(Head(rs)), Head(rs)), Tail(rs))

\* _group_resources_by_tag
group_resources_by_tag(vms, containers) == GroupByTag(GroupByTag(<<>>, vms), containers)

\* status.value.capitalize()
Capitalize(status) ==
    CASE status = "running" -> "Running" [] status = "stopped" -> "Stopped"
      [] status = "paused" -> "Paused" [] status = "suspended" -> "Suspended"
      [] OTHER -> "Unknown"

\* "for vm in vms" / "for ct in containers" of _group_resources_by_status
RECURSIVE GroupByStatus(_, _)
GroupByStatus(groups, rs) ==
    IF rs = <<>> THEN groups
    ELSE GroupByStatus(GroupAdd(groups, Capitalize(Head(rs).status), Head(rs)), Tail(rs))

\* _group_resources_by_status
group_resources_by_status(vms, containers) ==
    GroupByStatus(GroupByStatus(<<>>, vms), containers)

\* t.lower() on the tags of the model
Lower(t) == CASE t = "Prod" -> "prod" [] t = "Untagged" -> "untagged" [] OTHER -> t

\* the place of a lower-case tag in alphabetical order (str.__lt__)
AlphaRank(t) ==
    CASE t = "alpha" -> 1 [] t = "prod" -> 2 [] t = "untagged" -> 3 [] t = "web" -> 4

\* the sort key (t == "Untagged", t.lower()) of a is at most that of b
TagKeyLeq(a, b) ==
    IF (a = "Untagged") # (b = "Untagged") THEN b = "Untagged"
    ELSE AlphaRank(Lower(a)) <= AlphaRank(Lower(b))

\* status_order.index(s) of _sync_grouped_by_status
StatusRank(st) ==
    CASE st = "Running" -> 0 [] st = "Stopped" -> 1 [] st = "Paused" -> 2
      [] st = "Suspended" -> 3 [] OTHER -> 4

StatusKeyLeq(a, b) == StatusRank(a) <= StatusRank(b)

\* the sort key of the groups: by "tag" or by "status"
KeyLeq(by, a, b) == IF by = "tag" THEN TagKeyLeq(a, b) ELSE StatusKeyLeq(a, b)

\* sorted(groups.keys(), key=...): a stable sort of the groups on their key
RECURSIVE InsertGroup(_, _, _)
InsertGroup(g, s, by) ==
    IF s = <<>> THEN <<g>>
    ELSE IF KeyLeq(by, Head(s).key, g.key) THEN <<Head(s)>> \o InsertGroup(g, Tail(s), by)
    ELSE <<g>> \o s

RECURSIVE SortGroups(_, _)
SortGroups(s, by) ==
    IF s = <<>> THEN <<>>
    ELSE InsertGroup(s[Len(s)], SortGroups(SubSeq(s, 1, Len(s) - 1), by), by)

\* the groups of _sync_grouped_by_tag in the order of sorted_tags
tag_groups(c) == SortGroups(group_resources_by_tag(c.vms, c.containers), "tag")

\* the groups of _sync_grouped_by_status in the order of sorted_statuses
status_groups(c) == SortGroups(group_resources_by_status(c.vms, c.containers), "status")

\* the groups of _sync_grouped_by_node: "for node in cluster.nodes" with the
\* node's VMs and containers
node_groups(c) ==
    [k \in DOMAIN c.nodes |->
        [key |-> c.nodes[k],
         vms |-> SelectSeq(c.vms, LAMBDA vm : vm.node = c.nodes[k]),
         containers |-> SelectSeq(c.containers, LAMBDA ct : ct.node = c.nodes[k])]]

----------------------------------------------------------------------------
(* The document store: CraftClient.  A top-level block is                  *)
(* [id, md, kids]: its identifier, its own markdown and the markdown of    *)
(* the blocks of its page.  The store turns inserted markdown into one     *)
(* block per non-blank line.                                               *)

Lines(text) == SelectSeq(SplitNL(text, <<>>), LAMBDA l : ~IsBlank(l))

NewBlocks(text, id0) ==
    [k \in 1..Len(Lines(text)) |-> [id |-> id0 + k - 1, md |-> Lines(text)[k], kids |-> <<>>]]

\* CraftClient.insert_markdown(markdown, document, position)
insert_markdown_doc(d, text, position, id0) ==
    IF position = "start" THEN NewBlocks(text, id0) \o d ELSE d \o NewBlocks(text, id0)

\* an insert that replaces the page of the block
insert_markdown_block_replacing(d, bid, text) ==
    [k \in DOMAIN d |-> IF d[k].id = bid
                        THEN [d[k] EXCEPT !.kids = Lines(text)]
                        ELSE d[k]]

\* CraftClient.insert_markdown(markdown, block_id, "end"): the page of a block grows
insert_markdown_block(d, bid, text) ==
    [k \in DOMAIN d |-> IF d[k].id = bid
                        THEN [d[k] EXCEPT !.kids = @ \o Lines(text)]
                        ELSE d[k]]

\* CraftClient.clear_document: every top-level block that has an id is deleted
clear_document(d) == SelectSeq(d, LAMBDA b : b.id = 0)

\* CraftClient.get_block(block_id).content
BlockKids(d, bid) ==
    IF \E k \in DOMAIN d : d[k].id = bid
    THEN d[CHOOSE k \in DOMAIN d : d[k].id = bid].kids
    ELSE <<>>

----------------------------------------------------------------------------
(* The snapshot reader: _find_existing_resource_blocks, _extract_user_notes *)

\* the markdown of a block the loop cannot handle (an item that is no object,
\* or whose markdown is no string): block.get or the "in" test raises on it
UNREADABLE == <<"<unreadable>">>

\* index of the first token at or after k that is not white space
RECURSIVE SkipWs(_, _)
SkipWs(text, k) ==
    IF k > Len(text) THEN k
    ELSE IF text[k] \in {SP, NL} THEN SkipWs(text, k + 1)
    ELSE k

\* re.search(r'VMID:\s*(\d+)', text).group(1), "" when there is no match
RegexId(text, marker) ==
    LET hits == {p \in DOMAIN text :
                    /\ text[p] = marker
                    /\ SkipWs(text, p + 1) <= Len(text)
                    /\ text[SkipWs(text, p + 1)] \in Digits}
    IN IF hits = {} THEN ""
       ELSE text[SkipWs(text, (CHOOSE p \in hits : \A q \in hits : p <= q) + 1)]

\* existing[key] = value on a dict that keeps insertion order
DictPut(d, key, bid, md) ==
    IF \E k \in DOMAIN d : d[k].key = key
    THEN [k \in DOMAIN d |-> IF d[k].key = key
                             THEN [key |-> key, block_id |-> bid, block |-> md]
                             ELSE d[k]]
    ELSE Append(d, [key |-> key, block_id |-> bid, block |-> md])

DictHas(d, key) == \E k \in DOMAIN d : d[k].key = key

DictGet(d, key) == d[CHOOSE k \in DOMAIN d : d[k].key = key]

\* the loop body of _find_existing_resource_blocks for one block
ScanBlock(d, b) ==
    IF "VMID:" \in Range(b.md)
    THEN (IF RegexId(b.md, "VMID:") # ""
          THEN DictPut(d, <<"vm", RegexId(b.md, "VMID:")>>, b.id, b.md)
          ELSE d)
    ELSE IF "CTID:" \in Range(b.md)
    THEN (IF RegexId(b.md, "CTID:") # ""
          THEN DictPut(d, <<"ct", RegexId(b.md, "CTID:")>>, b.id, b.md)
          ELSE d)
    ELSE d

\* "for block in content" over the blocks the loop gets through
RECURSIVE ScanAll(_)
ScanAll(content) ==
    IF content = <<>> THEN <<>>
    ELSE ScanBlock(ScanAll(SubSeq(content, 1, Len(content) - 1)), content[Len(content)])

\* the blocks the loop goes through before one makes it raise: the try/except
\* is around the whole loop, so the scan ends at the first unreadable block
ReadablePrefix(content) ==
    IF \E k \in DOMAIN content : content[k].md = UNREADABLE
    THEN SubSeq(content, 1,
                (CHOOSE k \in DOMAIN content :
                    /\ content[k].md = UNREADABLE
                    /\ \A j \in 1..(k - 1) : content[j].md # UNREADABLE) - 1)
    ELSE content

\* _find_existing_resource_blocks scanning the blocks last to first
find_existing_reversed(content) ==
    LET c == ReadablePrefix(content)
    IN ScanAll([k \in 1..Len(c) |-> c[Len(c) + 1 - k]])

\* _find_existing_resource_blocks over the blocks read before the scan ended
find_existing_resource_blocks(content) == ScanAll(ReadablePrefix(content))

\* "## Notes" in text or "# Notes" in text
IsNotesHeading(line) ==
    \E k \in DOMAIN line :
        /\ k + 2 <= Len(line)
        /\ line[k] \in HashRuns /\ line[k + 1] = SP /\ line[k + 2] = "Notes"

\* text.startswith("#")
StartsWithHash(line) == line # <<>> /\ line[1] \in HashRuns

\* the loop of _extract_user_notes: the collected notes_content
RECURSIVE NotesLoop(_, _, _)
NotesLoop(items, in_notes, acc) ==
    IF items = <<>> THEN acc
    ELSE IF IsNotesHeading(Head(items)) THEN NotesLoop(Tail(items), TRUE, acc)
    ELSE IF in_notes /\ StartsWithHash(Head(items)) THEN acc
    ELSE IF in_notes /\ PLACEHOLDER \notin Range(Head(items)) /\ ~IsBlank(Head(items))
    THEN NotesLoop(Tail(items), in_notes, Append(acc, Head(items)))
    ELSE NotesLoop(Tail(items), in_notes, acc)

\* _extract_user_notes: the joined notes, <<>> for None
extract_user_notes(kids) == JoinNL(NotesLoop(kids, FALSE, <<>>))

\* re.search(r'#+ (?:icon )?([^\n(]+)', block_text): the name shown for an orphan
RECURSIVE TakeName(_, _)
TakeName(text, k) ==
    IF k > Len(text) \/ text[k] \in {NL, "("} THEN <<>>
    ELSE <<text[k]>> \o TakeName(text, k + 1)

NameStart(text, p) ==
    IF p + 3 <= Len(text) /\ text[p + 2] \in Icons /\ text[p + 3] = SP
       /\ TakeName(text, p + 4) # <<>>
    THEN p + 4 ELSE p + 2

\* original_name that never looks at the prior entry
original_name_fallback(text, vmid) == <<"Resource", SP, ToStr(vmid)>>

original_name(text, vmid) ==
    LET hits == {p \in DOMAIN text :
                    /\ p + 1 <= Len(text)
                    /\ text[p] \in HashRuns /\ text[p + 1] = SP
                    /\ TakeName(text, NameStart(text, p)) # <<>>}
    IN IF hits = {} THEN <<"Resource", SP, ToStr(vmid)>>
       ELSE Strip(TakeName(text, NameStart(text, CHOOSE p \in hits : \A q \in hits : p <= q)))

----------------------------------------------------------------------------
(* Inputs of a run: the live inventory and the document found in the store *)

\* what the user has written under the Notes heading of a resource's page
UserNotes(r) ==
    CASE r.vmid = 100 -> <<"keep backups weekly", NL, "rotate monthly">>
      [] r.vmid = 999 -> <<"legacy">>
      [] OTHER        -> <<"db notes">>

\* the markdown of a top-level resource entry: "### web (VMID: 100)"
EntryMd(r) ==
    Heading(display_name(r) \o <<SP, "(", Marker(r.kind), SP, ToStr(r.vmid), ")">>, 3)

\* the page under an entry: the detail page, with the user's notes if any
EntryKids(r, notes) ==
    Lines(IF notes # <<>> THEN Replace(format_detail(r), PLACEHOLDER, notes)
          ELSE format_detail(r))

\* the notes a prior entry carries: the VMs have notes, the container has none
PriorNotes(r) == IF r.kind = "vm" THEN UserNotes(r) ELSE <<>>

BlockChoices ==
    {[md |-> EntryMd(r), kids |-> EntryKids(r, PriorNotes(r))] : r \in Catalog}
    \cup {[md |-> Heading(<<"Overview">>, 2), kids |-> <<>>]}

\* the store gives every block an identifier
WithIds(s) == [k \in DOMAIN s |-> [id |-> k, md |-> s[k].md, kids |-> s[k].kids]]

Docs == {WithIds(s) : s \in SeqsUpTo(BlockChoices, MaxBlocks)}

Inventories ==
    {[nodes |-> NodeNames, vms |-> v, containers |-> c] :
        v \in DistinctSeqs(VMCatalog, Cardinality(VMCatalog)),
        c \in DistinctSeqs(CTCatalog, Cardinality(CTCatalog))}

----------------------------------------------------------------------------
(* The run *)

\* result = {...} at the top of sync_incremental
IncResult0 ==
    [success |-> TRUE, blocks_updated |-> 0, blocks_inserted |-> 0,
     subpages_created |-> 0, notes_preserved |-> 0,
     resources_flagged_deleted |-> 0, errors |-> <<>>]

\* result = {...} at the top of sync
FullResult0 ==
    [success |-> TRUE, blocks_inserted |-> 0, subpages_created |-> 0,
     alerts_critical |-> 0, alerts_warning |-> 0, errors |-> <<>>]

EmptyCluster == [nodes |-> <<>>, vms |-> <<>>, containers |-> <<>>]

\* SyncConfig as it is by default: group_by "node", include_stopped True
DefaultConfig == [group_by |-> "node", include_stopped |-> TRUE]

\* ProxmoxClient.get_cluster(include_stopped=...): the VMs and containers as
\* get_vms / get_containers parse them; without the stopped resources, only
\* the running ones stay
get_cluster(inv, include_stopped) ==
    LET vms == ParseAll(inv.vms)
        containers == ParseAll(inv.containers)
    IN IF include_stopped THEN [inv EXCEPT !.vms = vms, !.containers = containers]
       ELSE [inv EXCEPT !.vms = SelectSeq(vms, LAMBDA vm : vm.status = "running"),
                        !.containers = SelectSeq(containers, LAMBDA ct : ct.status = "running")]

Init ==
    /\ pc = "start"
    /\ mode \in {"incremental", "full"}
    /\ config = DefaultConfig
    /\ inventory \in Inventories
    /\ doc \in Docs
    /\ doc0 = doc
    /\ nextId = Len(doc) + 1
    /\ cluster = EmptyCluster
    /\ existing = <<>>
    /\ preserved = <<>>
    /\ i = 1
    /\ n = 1
    /\ result = IF mode = "incremental" THEN IncResult0 ELSE FullResult0
    /\ ops = <<>>
    /\ fails = 0
    /\ raised = FALSE

\* the outcomes a call to a collaborator can have: TRUE it returns, FALSE it fails
Outcomes == IF fails < MaxFailures THEN {TRUE, FALSE} ELSE {TRUE}

Cost(ok) == IF ok THEN 0 ELSE 1

\* an entry of the history
Op(op, why, key, target, text, ok) ==
    [op |-> op, why |-> why, key |-> key, target |-> target, text |-> text, ok |-> ok,
     pos |-> IF op = "insert" THEN "end" ELSE ""]

NoKey == <<>>

AddError(res, msg, id) == [res EXCEPT !.errors = Append(@, <<msg, id>>)]

\* preserved_notes.get(resource_id)
NotesGet(key) == IF key \in DOMAIN preserved THEN preserved[key] ELSE <<>>

\* _create_subpage(parent, content) when the store answers ok: the content is
\* inserted or not, and the store's failure is swallowed (except Exception: pass)
create_subpage(ok) == [done |-> ok, raised |-> FALSE]

\* _find_existing_resource_blocks without its try/except: a failed read propagates
find_existing_propagates(ok) == ~ok

\* the try/except of _find_existing_resource_blocks: a failed read is swallowed
find_existing_raises(ok) == FALSE

\* the try/except of _extract_user_notes: a failed read is swallowed
extract_user_notes_raises(ok) == FALSE

\* fetch_failed that records the error and leaves success as it was
fetch_failed_keeps_success(res) == AddError(res, "Failed to fetch Proxmox data", "")

\* "except Exception" around get_cluster: the run ends with one error
fetch_failed(res) ==
    AddError([res EXCEPT !.success = FALSE], "Failed to fetch Proxmox data", "")

\* "except Exception" around _get_target_document: the run ends with one error
target_failed(res) ==
    AddError([res EXCEPT !.success = FALSE], "Failed to get target document", "")

\* current_resource_ids built from the VMs alone
current_resource_ids_vms_only == {resource_id(r) : r \in Range(cluster.vms)}

\* the keys of the current inventory (current_resource_ids)
current_resource_ids ==
    {resource_id(r) : r \in Range(cluster.vms) \cup Range(cluster.containers)}

\* the last statement of sync_incremental: the run's success flag
inc_success(res) ==
    IF res.errors # <<>> /\ res.blocks_updated = 0 /\ res.blocks_inserted = 0
    THEN FALSE ELSE res.success

\* the last statement of sync: the run's success flag
full_success(res) ==
    IF res.errors # <<>> /\ res.blocks_inserted = 0 THEN FALSE ELSE res.success

----------------------------------------------------------------------------
(* sync_incremental *)

\* "Fetch Proxmox data": get_cluster, fatal when it fails
IncFetch ==
    /\ pc = "start" /\ mode = "incremental"
    /\ \E ok \in Outcomes :
        /\ fails' = fails + Cost(ok)
        /\ ops' = Append(ops, Op("fetch", "inventory", NoKey, 0, <<>>, ok))
        /\ IF ok
           THEN /\ cluster' = get_cluster(inventory, config.include_stopped)
                /\ pc' = "inc_target"
                /\ UNCHANGED result
           ELSE /\ result' = fetch_failed(result)
                /\ pc' = "done"
                /\ UNCHANGED cluster
    /\ UNCHANGED <<mode, config, inventory, doc, doc0, nextId, existing, preserved, i, n, raised>>

\* "Get target document": _get_target_document lists the documents
IncGetTarget ==
    /\ pc = "inc_target"
    /\ \E ok \in Outcomes :
        /\ fails' = fails + Cost(ok)
        /\ ops' = Append(ops, Op("documents", "target", NoKey, 0, <<>>, ok))
        /\ IF ok
           THEN pc' = "inc_scan" /\ UNCHANGED result
           ELSE /\ result' = target_failed(result)
                /\ pc' = "done"
    /\ UNCHANGED <<mode, config, inventory, cluster, doc, doc0, nextId, existing, preserved,
                   i, n, raised>>

\* _find_existing_resource_blocks(target_doc): the read may fail as a whole or
\* at one block; the blocks scanned before that stay in the map
IncScan ==
    /\ pc = "inc_scan"
    /\ \E ok \in Outcomes :
       \E cut \in 0..Len(doc) :
        /\ ok => cut = Len(doc)
        /\ ~ok => (cut < Len(doc) \/ cut = 0)
        /\ fails' = fails + Cost(ok)
        /\ ops' = Append(ops, Op("read", "scan", NoKey, 0, <<>>, ok))
        /\ IF find_existing_raises(ok)
           THEN raised' = TRUE /\ pc' = "done" /\ UNCHANGED <<existing, i>>
           ELSE /\ existing' = find_existing_resource_blocks(SubSeq(doc, 1, cut))
                /\ i' = 1
                /\ pc' = "inc_notes"
                /\ UNCHANGED raised
    /\ UNCHANGED <<mode, config, inventory, cluster, doc, doc0, nextId, preserved, n, result>>

\* one turn of "for resource_id, block_data in existing_blocks.items()"
IncNotes ==
    /\ pc = "inc_notes"
    /\ i <= Len(existing)
    /\ IF existing[i].block_id # 0
       THEN \E ok \in Outcomes :
            LET notes == IF ok THEN extract_user_notes(BlockKids(doc, existing[i].block_id))
                         ELSE <<>>
                key == existing[i].key
            IN /\ fails' = fails + Cost(ok)
               /\ ops' = Append(ops, Op("read", "notes", key, existing[i].block_id, <<>>, ok))
               /\ IF extract_user_notes_raises(ok)
                  THEN raised' = TRUE /\ pc' = "done" /\ UNCHANGED <<preserved, result, i>>
                  ELSE /\ UNCHANGED <<raised, pc>>
                       /\ i' = i + 1
                       /\ IF notes # <<>>
                          THEN /\ preserved' = [k \in DOMAIN preserved \cup {key} |->
                                                  IF k = key THEN notes ELSE preserved[k]]
                               /\ result' = [result EXCEPT !.notes_preserved = @ + 1]
                          ELSE UNCHANGED <<preserved, result>>
       ELSE /\ i' = i + 1
            /\ UNCHANGED <<preserved, result, ops, fails, raised, pc>>
    /\ UNCHANGED <<mode, config, inventory, cluster, doc, doc0, nextId, existing, n>>

\* "If no existing content, do a full sync": return self.sync(clear_first=True)
IncCheckExisting ==
    /\ pc = "inc_notes"
    /\ i > Len(existing)
    /\ IF existing = <<>>
       THEN pc' = "full_fetch" /\ result' = FullResult0
       ELSE pc' = "inc_overview" /\ UNCHANGED result
    /\ UNCHANGED <<mode, config, inventory, cluster, doc, doc0, nextId, existing, preserved,
                   i, n, ops, fails, raised>>

\* "Update last sync time in overview": the overview is inserted at the start
IncOverview ==
    /\ pc = "inc_overview"
    /\ \E ok \in Outcomes :
        LET text == format_cluster_overview(cluster)
        IN /\ fails' = fails + Cost(ok)
           /\ ops' = Append(ops, [Op("insert", "overview", NoKey, 0, text, ok)
                                   EXCEPT !.pos = "start"])
           /\ IF ok
              THEN /\ doc' = insert_markdown_doc(doc, text, "start", nextId)
                   /\ nextId' = nextId + Len(Lines(text))
                   /\ result' = [result EXCEPT !.blocks_updated = @ + Len(Lines(text))]
              ELSE /\ result' = AddError(result, "Failed to update overview", "")
                   /\ UNCHANGED <<doc, nextId>>
    /\ pc' = "inc_vms"
    /\ i' = 1
    /\ UNCHANGED <<mode, config, inventory, cluster, doc0, existing, preserved, n, raised>>

\* the VMs or the containers of the fetched cluster, in the order fetched
Current(kind) == IF kind = "vm" THEN cluster.vms ELSE cluster.containers

ErrUpdate(kind) ==
    IF kind = "vm" THEN "Failed to update VM" ELSE "Failed to update container"

ErrAdd(kind) ==
    IF kind = "vm" THEN "Failed to add new VM" ELSE "Failed to add new container"

\* one turn of "for vm in cluster.vms" / "for ct in cluster.containers":
\* update the existing block or add a new entry
IncResource(kind) ==
    /\ pc = (IF kind = "vm" THEN "inc_vms" ELSE "inc_cts")
    /\ i <= Len(Current(kind))
    /\ LET r == Current(kind)[i]
           key == resource_id(r)
           user_notes == NotesGet(key)
           detail == IF kind = "vm" THEN format_vm_detail(r) ELSE format_container_detail(r)
       IN IF DictHas(existing, key)
          THEN LET block_id == DictGet(existing, key).block_id
                   content == IF user_notes # <<>>
                              THEN Replace(detail, PLACEHOLDER, user_notes)
                              ELSE detail
               IN IF block_id # 0
                  THEN \E ok \in Outcomes :
                        /\ fails' = fails + Cost(ok)
                        /\ ops' = Append(ops, Op("insert", "update", key, block_id, content, ok))
                        /\ doc' = IF create_subpage(ok).done
                                  THEN insert_markdown_block(doc, block_id, content)
                                  ELSE doc
                        /\ result' = IF create_subpage(ok).raised
                                     THEN AddError(result, ErrUpdate(kind),
                                                   ToStr(r.vmid))
                                     ELSE [result EXCEPT !.blocks_updated = @ + 1]
                        /\ UNCHANGED nextId
                  ELSE UNCHANGED <<fails, ops, doc, result, nextId>>
          ELSE LET head == <<"###", SP>> \o display_name(r)
               IN \E ok1 \in Outcomes :
                   IF ~ok1
                   THEN /\ fails' = fails + 1
                        /\ ops' = Append(ops, Op("insert", "create", key, 0, head, FALSE))
                        /\ result' = AddError(result, ErrAdd(kind),
                                              ToStr(r.vmid))
                        /\ UNCHANGED <<doc, nextId>>
                   ELSE \E ok2 \in Outcomes :
                        /\ fails' = fails + Cost(ok2)
                        /\ ops' = ops \o <<Op("insert", "create", key, 0, head, TRUE),
                                           Op("insert", "page", key, nextId, detail, ok2)>>
                        /\ nextId' = nextId + 1
                        /\ doc' = IF create_subpage(ok2).done
                                  THEN insert_markdown_block(
                                           insert_markdown_doc(doc, head, "end", nextId),
                                           nextId, detail)
                                  ELSE insert_markdown_doc(doc, head, "end", nextId)
                        /\ result' =
                             LET res == [result EXCEPT !.blocks_inserted = @ + 1]
                             IN IF create_subpage(ok2).raised
                                THEN AddError(res, ErrAdd(kind),
                                              ToStr(r.vmid))
                                ELSE IF create_subpage(ok2).done
                                THEN [res EXCEPT !.subpages_created = @ + 1]
                                ELSE res
    /\ i' = i + 1
    /\ UNCHANGED <<pc, mode, config, inventory, cluster, doc0, existing, preserved, n, raised>>

\* the end of "for vm in cluster.vms": on to the containers
IncVMsDone ==
    /\ pc = "inc_vms"
    /\ i > Len(cluster.vms)
    /\ pc' = "inc_cts"
    /\ i' = 1
    /\ UNCHANGED <<mode, config, inventory, cluster, doc, doc0, nextId, existing, preserved,
                   n, result, ops, fails, raised>>

\* the end of "for ct in cluster.containers": on to the deleted resources
IncCTsDone ==
    /\ pc = "inc_cts"
    /\ i > Len(cluster.containers)
    /\ pc' = "inc_flag"
    /\ i' = 1
    /\ UNCHANGED <<mode, config, inventory, cluster, doc, doc0, nextId, existing, preserved,
                   n, result, ops, fails, raised>>

\* one turn of "for resource_id, block_data in existing_blocks.items()":
\* a prior entry that is not in the inventory is flagged as deleted
IncFlag ==
    /\ pc = "inc_flag"
    /\ i <= Len(existing)
    /\ LET e == existing[i]
           vmid == ToInt(e.key[2])
           user_notes == NotesGet(e.key)
           name == original_name(e.block, vmid)
           content == IF e.key[1] = "vm"
                      THEN format_deleted_vm_page(vmid, name, user_notes)
                      ELSE format_deleted_container_page(vmid, name, user_notes)
       IN IF e.key \notin current_resource_ids /\ e.block_id # 0
          THEN \E ok \in Outcomes :
                /\ fails' = fails + Cost(ok)
                /\ ops' = Append(ops, Op("insert", "flag", e.key, e.block_id, content, ok))
                /\ doc' = IF create_subpage(ok).done
                          THEN insert_markdown_block(doc, e.block_id, content)
                          ELSE doc
                /\ result' = IF create_subpage(ok).raised
                             THEN AddError(result, "Failed to flag deleted resource", e.key[2])
                             ELSE [result EXCEPT !.resources_flagged_deleted = @ + 1]
          ELSE UNCHANGED <<fails, ops, doc, result>>
    /\ i' = i + 1
    /\ UNCHANGED <<pc, mode, config, inventory, cluster, doc0, nextId, existing, preserved, n, raised>>

\* the end of sync_incremental: the success flag, and the result is returned
IncFinish ==
    /\ pc = "inc_flag"
    /\ i > Len(existing)
    /\ result' = [result EXCEPT !.success = inc_success(result)]
    /\ pc' = "done"
    /\ UNCHANGED <<mode, config, inventory, cluster, doc, doc0, nextId, existing, preserved,
                   i, n, ops, fails, raised>>

----------------------------------------------------------------------------
(* sync, grouped by node (the default group_by) *)

\* "Fetch Proxmox data": get_cluster, fatal when it fails
FullFetch ==
    /\ \/ pc = "start" /\ mode = "full"
       \/ pc = "full_fetch"
    /\ \E ok \in Outcomes :
        /\ fails' = fails + Cost(ok)
        /\ ops' = Append(ops, Op("fetch", "inventory", NoKey, 0, <<>>, ok))
        /\ IF ok
           THEN LET fetched == get_cluster(inventory, config.include_stopped)
                IN /\ cluster' = evaluate_alerts(fetched)
                   /\ pc' = "full_target"
                   /\ result' = [result EXCEPT
                          !.alerts_critical = @ + CountAlerts(evaluate_alerts(fetched), "critical"),
                          !.alerts_warning = @ + CountAlerts(evaluate_alerts(fetched), "warning")]
           ELSE /\ result' = fetch_failed(result)
                /\ pc' = "done"
                /\ UNCHANGED cluster
    /\ UNCHANGED <<mode, config, inventory, doc, doc0, nextId, existing, preserved, i, n, raised>>

\* "Get target document"
FullGetTarget ==
    /\ pc = "full_target"
    /\ \E ok \in Outcomes :
        /\ fails' = fails + Cost(ok)
        /\ ops' = Append(ops, Op("documents", "target", NoKey, 0, <<>>, ok))
        /\ IF ok
           THEN pc' = "full_clear" /\ UNCHANGED result
           ELSE /\ result' = target_failed(result)
                /\ pc' = "done"
    /\ UNCHANGED <<mode, config, inventory, cluster, doc, doc0, nextId, existing, preserved,
                   i, n, raised>>

\* "Clear existing content if requested": clear_first is True on every call
FullClear ==
    /\ pc = "full_clear"
    /\ \E ok \in Outcomes :
        /\ fails' = fails + Cost(ok)
        /\ ops' = Append(ops, Op("clear", "clear", NoKey, 0, <<>>, ok))
        /\ IF ok
           THEN doc' = clear_document(doc) /\ UNCHANGED result
           ELSE /\ result' = AddError(result, "Warning: Failed to clear document", "")
                /\ UNCHANGED doc
    /\ pc' = "full_overview"
    /\ UNCHANGED <<mode, config, inventory, cluster, doc0, nextId, existing, preserved, i, n, raised>>

\* an insert_markdown(text, target_doc, "end") of sync whose failure is recorded
\* under msg (msg = "" when the failure is passed over in silence)
DocInsert(why, text, msg, ok) ==
    /\ fails' = fails + Cost(ok)
    /\ ops' = Append(ops, Op("insert", why, NoKey, 0, text, ok))
    /\ IF ok
       THEN /\ doc' = insert_markdown_doc(doc, text, "end", nextId)
            /\ nextId' = nextId + Len(Lines(text))
            /\ result' = [result EXCEPT !.blocks_inserted = @ + Len(Lines(text))]
       ELSE /\ result' = IF msg = "" THEN result ELSE AddError(result, msg, "")
            /\ UNCHANGED <<doc, nextId>>

\* "Insert cluster overview"
FullOverview ==
    /\ pc = "full_overview"
    /\ \E ok \in Outcomes :
        DocInsert("overview", format_cluster_overview(cluster), "Failed to insert overview", ok)
    /\ pc' = "full_node"
    /\ n' = 1
    /\ UNCHANGED <<mode, config, inventory, cluster, doc0, existing, preserved, i, raised>>

\* "Choose grouping strategy": the groups the run goes through, by tag, by
\* status, and by node for every other value of group_by
Groups ==
    CASE config.group_by = "tag" -> tag_groups(cluster)
      [] config.group_by = "status" -> status_groups(cluster)
      [] OTHER -> node_groups(cluster)

\* the resources of group n, as _sync_vm_section / _sync_container_section take
\* them: "for vm in sorted(vms, key=lambda v: v.vmid)"
SectionResources(kind) ==
    SortedByVmid(IF kind = "vm" THEN Groups[n].vms ELSE Groups[n].containers)

\* _sync_grouped_by_tag: the header of tag n; a failed header skips the tag
FullTagHeader ==
    /\ pc = "full_node"
    /\ config.group_by = "tag"
    /\ n <= Len(Groups)
    /\ \E ok \in Outcomes :
        /\ DocInsert("tag", JoinNL(<< <<>>, Heading(<<"Tag:", SP, Groups[n].key>>, 2), <<>> >>),
                     "Failed to insert tag section", ok)
        /\ IF ok
           THEN pc' = "full_vm_section" /\ UNCHANGED n
           ELSE n' = n + 1 /\ UNCHANGED pc
    /\ UNCHANGED <<mode, config, inventory, cluster, doc0, existing, preserved, i, raised>>

\* status_icons.get(status, default)
StatusIcon(status) ==
    CASE status = "Running" -> "(green)" [] status = "Stopped" -> "(red)"
      [] status = "Paused" -> "(yellow)" [] status = "Suspended" -> "(orange)"
      [] OTHER -> "(white)"

\* _sync_grouped_by_status: the header of status n; a failed header skips it
FullStatusHeader ==
    /\ pc = "full_node"
    /\ config.group_by = "status"
    /\ n <= Len(Groups)
    /\ \E ok \in Outcomes :
        /\ DocInsert("status",
                     JoinNL(<< <<>>, Heading(<<StatusIcon(Groups[n].key), SP, Groups[n].key>>, 2), <<>> >>),
                     "Failed to insert status section", ok)
        /\ IF ok
           THEN pc' = "full_vm_section" /\ UNCHANGED n
           ELSE n' = n + 1 /\ UNCHANGED pc
    /\ UNCHANGED <<mode, config, inventory, cluster, doc0, existing, preserved, i, raised>>

\* _sync_grouped_by_node: the header of node n; a failed header skips the node
FullNodeHeader ==
    /\ pc = "full_node"
    /\ config.group_by \notin {"tag", "status"}
    /\ n <= Len(Groups)
    /\ \E ok \in Outcomes :
        /\ DocInsert("node", format_node_section(cluster.nodes[n]), "Failed to insert node", ok)
        /\ IF ok
           THEN pc' = "full_vm_section" /\ UNCHANGED n
           ELSE n' = n + 1 /\ UNCHANGED pc
    /\ UNCHANGED <<mode, config, inventory, cluster, doc0, existing, preserved, i, raised>>

SectionPc(kind) == IF kind = "vm" THEN "full_vm_section" ELSE "full_ct_section"

ItemsPc(kind) == IF kind = "vm" THEN "full_vms" ELSE "full_cts"

AfterPc(kind) == IF kind = "vm" THEN "full_ct_section" ELSE "full_sep"

\* _sync_vm_section / _sync_container_section: nothing for an empty list, else
\* the section heading; a failed heading leaves the whole section out
FullSection(kind) ==
    /\ pc = SectionPc(kind)
    /\ IF SectionResources(kind) = <<>>
       THEN /\ pc' = AfterPc(kind)
            /\ UNCHANGED <<fails, ops, doc, nextId, result, i>>
       ELSE \E ok \in Outcomes :
            /\ DocInsert("section",
                         Heading(IF kind = "vm" THEN <<"Virtual Machines">>
                                 ELSE <<"Containers">>, 3),
                         IF kind = "vm" THEN "Failed to insert VMs section"
                         ELSE "Failed to insert containers section", ok)
            /\ pc' = IF ok THEN ItemsPc(kind) ELSE AfterPc(kind)
            /\ i' = 1
    /\ UNCHANGED <<mode, config, inventory, cluster, doc0, existing, preserved, n, raised>>

\* one turn of "for vm in sorted(vms, key=lambda v: v.vmid)": the heading of the
\* resource at the end of the document and its detail page under it
FullResource(kind) ==
    /\ pc = ItemsPc(kind)
    /\ i <= Len(SectionResources(kind))
    /\ LET r == SectionResources(kind)[i]
           key == resource_id(r)
           head == <<"###", SP>> \o get_alert_indicator(r) \o display_name(r)
           detail == IF kind = "vm" THEN format_vm_detail(r) ELSE format_container_detail(r)
           msg == IF kind = "vm" THEN "Failed to create VM subpage"
                  ELSE "Failed to create container subpage"
       IN \E ok1 \in Outcomes :
           IF ~ok1
           THEN /\ fails' = fails + 1
                /\ ops' = Append(ops, Op("insert", "create", key, 0, head, FALSE))
                /\ result' = AddError(result, msg, ToStr(r.vmid))
                /\ UNCHANGED <<doc, nextId>>
           ELSE \E ok2 \in Outcomes :
                /\ fails' = fails + Cost(ok2)
                /\ ops' = ops \o <<Op("insert", "create", key, 0, head, TRUE),
                                   Op("insert", "page", key, nextId, detail, ok2)>>
                /\ nextId' = nextId + 1
                /\ doc' = IF create_subpage(ok2).done
                          THEN insert_markdown_block(
                                   insert_markdown_doc(doc, head, "end", nextId),
                                   nextId, detail)
                          ELSE insert_markdown_doc(doc, head, "end", nextId)
                /\ result' =
                     LET res == [result EXCEPT !.blocks_inserted = @ + 1]
                     IN IF create_subpage(ok2).raised
                        THEN AddError(res, msg, ToStr(r.vmid))
                        ELSE IF create_subpage(ok2).done
                        THEN [res EXCEPT !.subpages_created = @ + 1]
                        ELSE res
    /\ i' = i + 1
    /\ UNCHANGED <<pc, mode, config, inventory, cluster, doc0, existing, preserved, n, raised>>

\* the end of the loop of a section
FullSectionDone(kind) ==
    /\ pc = ItemsPc(kind)
    /\ i > Len(SectionResources(kind))
    /\ pc' = AfterPc(kind)
    /\ UNCHANGED <<mode, config, inventory, cluster, doc, doc0, nextId, existing, preserved,
                   i, n, result, ops, fails, raised>>

\* "Insert separator": a failure is passed over
FullSeparator ==
    /\ pc = "full_sep"
    /\ \E ok \in Outcomes : DocInsert("separator", <<"---">>, "", ok)
    /\ n' = n + 1
    /\ pc' = "full_node"
    /\ UNCHANGED <<mode, config, inventory, cluster, doc0, existing, preserved, i, raised>>

\* "Quick reference tables - skip if too many items"
FullQuickRef ==
    /\ pc = "full_node"
    /\ n > Len(Groups)
    /\ IF Len(cluster.vms) + Len(cluster.containers) <= 30
       THEN \E ok \in Outcomes :
            DocInsert("quickref", format_quick_reference(cluster),
                      "Failed to insert quick reference", ok)
       ELSE UNCHANGED <<fails, ops, doc, nextId, result>>
    /\ pc' = "full_finish"
    /\ UNCHANGED <<mode, config, inventory, cluster, doc0, existing, preserved, i, n, raised>>

\* the end of sync: the success flag, and the result is returned
FullFinish ==
    /\ pc = "full_finish"
    /\ result' = [result EXCEPT !.success = full_success(result)]
    /\ pc' = "done"
    /\ UNCHANGED <<mode, config, inventory, cluster, doc, doc0, nextId, existing, preserved,
                   i, n, ops, fails, raised>>

----------------------------------------------------------------------------

Next ==
    \/ IncFetch \/ IncGetTarget \/ IncScan \/ IncNotes \/ IncCheckExisting
    \/ IncOverview \/ IncResource("vm") \/ IncVMsDone \/ IncResource("ct") \/ IncCTsDone
    \/ IncFlag \/ IncFinish
    \/ FullFetch \/ FullGetTarget \/ FullClear \/ FullOverview \/ FullNodeHeader
    \/ FullSection("vm") \/ FullResource("vm") \/ FullSectionDone("vm")
    \/ FullSection("ct") \/ FullResource("ct") \/ FullSectionDone("ct")
    \/ FullSeparator \/ FullQuickRef \/ FullFinish

Spec == Init /\ [][Next]_vars

----------------------------------------------------------------------------
(* The incremental run over documents as users leave them: entries whose   *)
(* pages were edited, blocks naming both markers, unreadable blocks.  The  *)
(* inventory is fixed and no call fails.                                   *)

\* what a user may have left under the Notes heading of the page of VM 100
PageNotes ==
    { <<>>,
      <<"keep backups weekly", NL, "rotate monthly">>,
      <<"n1", NL, "##", SP, "History", NL, "h1">>,
      <<"n1", NL, "###", SP, "Notes", SP, "on backups", NL, "n2">>,
      <<PLACEHOLDER, NL, "n1">> }

\* the page of an entry whose Notes section was emptied
EmptiedKids(r) == SelectSeq(EntryKids(r, <<>>), LAMBDA line : line # <<PLACEHOLDER>>)

\* "### db (VMID: n/a, CTID: 200)": the VM marker without digits, then a
\* container marker
BothMarkersMd ==
    <<"###", SP, "db", SP, "(", "VMID:", SP, "n/a", ",", SP, "CTID:", SP, "200", ")">>

\* "### old (VMID: 999) was VMID: 100": two digit runs after the VM marker
TwoIdsMd ==
    <<"###", SP, "old", SP, "(", "VMID:", SP, "999", ")", SP, "was", SP, "VMID:", SP, "100">>

\* "### web-old (VMID: 100)": the entry of VM 100 from before it was renamed
RenamedMd ==
    <<"###", SP, "web-old", SP, "(", "VMID:", SP, "100", ")">>

\* "### WARN legacy (CTID: 999)": the entry of a container that is gone, with
\* the warning icon before its name
GoneContainerMd ==
    <<"###", SP, "WARN", SP, "legacy", SP, "(", "CTID:", SP, "999", ")">>

ReaderBlockChoices ==
    LET vm == CHOOSE r \in VMCatalog : r.vmid = 100
        ct == CHOOSE r \in CTCatalog : r.vmid = 200
    IN {[md |-> EntryMd(vm), kids |-> EntryKids(vm, nt)] : nt \in PageNotes}
       \cup {[md |-> EntryMd(vm), kids |-> EmptiedKids(vm)],
             [md |-> RenamedMd, kids |-> EntryKids(vm, <<"n1">>)],
             [md |-> GoneContainerMd, kids |-> <<>>],
             [md |-> EntryMd(ct), kids |-> EntryKids(ct, <<>>)],
             [md |-> Heading(<<"Overview">>, 2), kids |-> <<>>],
             [md |-> UNREADABLE, kids |-> <<>>],
             [md |-> BothMarkersMd, kids |-> <<>>],
             [md |-> TwoIdsMd, kids |-> <<>>]}

ReaderDocs == {WithIds(s) : s \in SeqsUpTo(ReaderBlockChoices, MaxReaderBlocks)}

ReaderInit ==
    /\ pc = "start"
    /\ mode = "incremental"
    /\ config = DefaultConfig
    /\ inventory = [nodes |-> NodeNames,
                    vms |-> <<CHOOSE r \in VMCatalog : r.vmid = 100>>,
                    containers |-> <<CHOOSE r \in CTCatalog : r.vmid = 200>>]
    /\ doc \in ReaderDocs
    /\ doc0 = doc
    /\ nextId = Len(doc) + 1
    /\ cluster = EmptyCluster
    /\ existing = <<>>
    /\ preserved = <<>>
    /\ i = 1
    /\ n = 1
    /\ result = IncResult0
    /\ ops = <<>>
    /\ fails = MaxFailures
    /\ raised = FALSE

ReaderSpec == ReaderInit /\ [][Next]_vars

----------------------------------------------------------------------------
(* Runs under the options of SyncConfig: the grouping of a full sync by    *)
(* tag, by status, by node or "none", and the fetch without the stopped    *)
(* resources.  No call fails.                                              *)

\* the tags string of a resource as the Proxmox API gives it
RawTagChoices ==
    { <<>>,
      <<"prod">>,
      <<"web", ";", "Prod">>,
      <<"alpha", ";", SP, "prod", ";">>,
      <<"prod", ";", "prod">>,
      <<"Untagged">> }

\* the statuses of ResourceStatus
Statuses == {"running", "stopped", "paused", "suspended", "unknown"}

\* the resource of the catalog with the numeric id
CatalogResource(vmid) == CHOOSE r \in Catalog : r.vmid = vmid

\* the two VMs in either order and the container
InventoryOf(vm100, vm999, ct200) ==
    {[nodes |-> NodeNames, vms |-> v, containers |-> <<ct200>>] :
        v \in {<<vm100, vm999>>, <<vm999, vm100>>}}

TaggedInventories ==
    UNION {InventoryOf([CatalogResource(100) EXCEPT !.tags = t1],
                       [CatalogResource(999) EXCEPT !.tags = t2],
                       [CatalogResource(200) EXCEPT !.tags = t3]) :
              t1 \in RawTagChoices, t2 \in RawTagChoices, t3 \in RawTagChoices}

StatusInventories ==
    UNION {InventoryOf([CatalogResource(100) EXCEPT !.status = s1],
                       CatalogResource(999),
                       [CatalogResource(200) EXCEPT !.status = s2]) :
              s1 \in Statuses, s2 \in Statuses}

\* the document with an entry for every resource of the catalog
PublishedDoc ==
    WithIds([k \in 1..3 |->
                LET r == CatalogResource(<<100, 999, 200>>[k])
                IN [md |-> EntryMd(r), kids |-> EntryKids(r, PriorNotes(r))]])

ConfigInit ==
    /\ pc = "start"
    /\ \/ /\ mode = "full"
          /\ config = [group_by |-> "tag", include_stopped |-> TRUE]
          /\ inventory \in TaggedInventories
          /\ doc = <<>>
       \/ /\ mode = "full"
          /\ config \in [group_by : {"node", "status", "none"}, include_stopped : BOOLEAN]
          /\ inventory \in StatusInventories
          /\ doc = <<>>
       \/ /\ mode = "incremental"
          /\ config \in [group_by : {"node"}, include_stopped : BOOLEAN]
          /\ inventory \in StatusInventories
          /\ doc = PublishedDoc
    /\ doc0 = doc
    /\ nextId = Len(doc) + 1
    /\ cluster = EmptyCluster
    /\ existing = <<>>
    /\ preserved = <<>>
    /\ i = 1
    /\ n = 1
    /\ result = IF mode = "incremental" THEN IncResult0 ELSE FullResult0
    /\ ops = <<>>
    /\ fails = MaxFailures
    /\ raised = FALSE

ConfigNext == Next \/ FullTagHeader \/ FullStatusHeader

ConfigSpec == ConfigInit /\ [][ConfigNext]_vars

----------------------------------------------------------------------------
(* display_name on its own: a VM or container with a drawn name and        *)
(* hostname is asked for its display name.  inventory holds the resource,  *)
(* result the name returned.                                               *)

NameChoices == {"", "web", "db", "old"}

HostnameChoices == {"", "dbhost", "web", "h2"}

\* a ProxmoxVM has no hostname
NameSubjects ==
    {Resource("vm", id, nm, "", "pve1", NoMetrics) : id \in ResourceIds, nm \in NameChoices}
    \cup {Resource("ct", id, nm, h, "pve1", NoMetrics) :
              id \in ResourceIds, nm \in NameChoices, h \in HostnameChoices}

NameInit ==
    /\ pc = "name"
    /\ mode = "name"
    /\ config = DefaultConfig
    /\ inventory \in NameSubjects
    /\ result = [display_name |-> <<>>]
    /\ doc = <<>> /\ doc0 = <<>> /\ nextId = 1
    /\ cluster = EmptyCluster
    /\ existing = <<>> /\ preserved = <<>>
    /\ i = 1 /\ n = 1
    /\ ops = <<>> /\ fails = 0 /\ raised = FALSE

\* a read of vm.display_name / ct.display_name
ReadDisplayName ==
    /\ pc = "name"
    /\ result' = [display_name |-> display_name(inventory)]
    /\ pc' = "named"
    /\ UNCHANGED <<mode, config, inventory, cluster, doc, doc0, nextId, existing, preserved,
                   i, n, ops, fails, raised>>

NameNext == ReadDisplayName

NameSpec == NameInit /\ [][NameNext]_vars

----------------------------------------------------------------------------
(* The alert evaluator on its own: a resource or a storage pool with drawn *)
(* metrics is evaluated and the flags of the resource are read.  inventory *)
(* holds the subject, result what the evaluator and the flags return.      *)

\* the usage fractions tried, around the thresholds
CpuUsages == {None, 0, 799, 800, 949, 950, 960, 1000}
MemoryUsages == {None, 800, 950}

\* the backup timestamps tried: none, a second ago, and around 7 and 30 days
BackupTimes ==
    {None, Now - 1,
     Now - backup_warning_days * DaySeconds + 1, Now - backup_warning_days * DaySeconds,
     Now - backup_critical_days * DaySeconds + 1, Now - backup_critical_days * DaySeconds,
     Now - (backup_critical_days + 1) * DaySeconds}

\* Backup with its backup_time
Backup(t) == [backup_time |-> t]

BackupInfos ==
    {NoBackupInfo}
    \cup {BackupInfo(bs) : bs \in SeqsUpTo({Backup(t) : t \in BackupTimes}, MaxBackups)}

MetricChoices ==
    [cpu_usage : CpuUsages, memory_usage : MemoryUsages, backup_info : BackupInfos,
     status : {"running", "stopped"}, tags : {<<>>}, alerts : {<<>>}]

\* StoragePool with total_bytes and used_bytes
PoolChoices ==
    [total_bytes : {None, 0, 1000},
     used_bytes : {None, 0, 500, 799, 800, 801, 899, 900, 901, 1000}]

EvalSubjects ==
    {[kind |-> "vm", subject |-> Resource("vm", 100, "web", "", "pve1", m),
      alert_on_stopped |-> b] : m \in MetricChoices, b \in BOOLEAN}
    \cup {[kind |-> "ct", subject |-> Resource("ct", 200, "db", "dbhost", "pve1", m),
           alert_on_stopped |-> b] : m \in MetricChoices, b \in BOOLEAN}
    \cup {[kind |-> "pool", subject |-> q, alert_on_stopped |-> FALSE] : q \in PoolChoices}

EvalInit ==
    /\ pc = "evaluate"
    /\ mode = "evaluate"
    /\ config = DefaultConfig
    /\ inventory \in EvalSubjects
    /\ result = [alerts |-> <<>>]
    /\ doc = <<>> /\ doc0 = <<>> /\ nextId = 1
    /\ cluster = EmptyCluster
    /\ existing = <<>> /\ preserved = <<>>
    /\ i = 1 /\ n = 1
    /\ ops = <<>> /\ fails = 0 /\ raised = FALSE

\* vm.alerts = evaluator.evaluate_vm(vm)
EvaluateVM ==
    /\ pc = "evaluate" /\ inventory.kind = "vm"
    /\ result' = [alerts |-> evaluate_vm(inventory.subject, inventory.alert_on_stopped)]
    /\ pc' = "evaluated"
    /\ UNCHANGED <<mode, config, inventory, cluster, doc, doc0, nextId, existing, preserved,
                   i, n, ops, fails, raised>>

\* ct.alerts = evaluator.evaluate_container(ct)
EvaluateContainer ==
    /\ pc = "evaluate" /\ inventory.kind = "ct"
    /\ result' = [alerts |-> evaluate_container(inventory.subject, inventory.alert_on_stopped)]
    /\ pc' = "evaluated"
    /\ UNCHANGED <<mode, config, inventory, cluster, doc, doc0, nextId, existing, preserved,
                   i, n, ops, fails, raised>>

\* alerts = evaluator.evaluate_storage(pool)
EvaluateStorage ==
    /\ pc = "evaluate" /\ inventory.kind = "pool"
    /\ result' = [alerts |-> evaluate_storage(inventory.subject)]
    /\ pc' = "evaluated"
    /\ UNCHANGED <<mode, config, inventory, cluster, doc, doc0, nextId, existing, preserved,
                   i, n, ops, fails, raised>>

\* a read of resource.has_warnings and resource.has_critical
ReadFlags ==
    /\ pc = "evaluated" /\ inventory.kind \in {"vm", "ct"}
    /\ result' = [alerts |-> result.alerts,
                  has_warnings |-> has_warnings(result),
                  has_critical |-> has_critical(result)]
    /\ pc' = "read"
    /\ UNCHANGED <<mode, config, inventory, cluster, doc, doc0, nextId, existing, preserved,
                   i, n, ops, fails, raised>>

EvalNext == EvaluateVM \/ EvaluateContainer \/ EvaluateStorage \/ ReadFlags

EvalSpec == EvalInit /\ [][EvalNext]_vars

----------------------------------------------------------------------------
(* Properties *)

\* the decisions applied so far: the Update, Create and FlagDeleted calls
Acts == SelectSeq(ops, LAMBDA o : o.why \in {"update", "create", "flag"})

\* a key as (kind, numeric id)
NumKey(key) == <<key[1], ToInt(key[2])>>

CurrentKeys == {<<r.kind, r.vmid>> : r \in Range(cluster.vms) \cup Range(cluster.containers)}

PriorKeys == {NumKey(existing[k].key) : k \in DOMAIN existing}

\* an incremental run with a non-empty prior map has returned
IncrementalDone == pc = "done" /\ mode = "incremental" /\ existing # <<>>

KeyVM100 == <<"vm", 100>>
KeyVM999 == <<"vm", 999>>
KeyCT200 == <<"ct", 200>>

\* C1: in an incremental run with a non-empty prior map the keys acted on with
\* a Create, Update or FlagDeleted are exactly current_keys \cup prior_keys, and
\* every key is acted on exactly once.
C1_EveryKeyActedOnOnce ==
    IncrementalDone =>
        /\ {NumKey(Acts[k].key) : k \in DOMAIN Acts} = CurrentKeys \cup PriorKeys
        /\ \A a, b \in DOMAIN Acts : a # b => NumKey(Acts[a].key) # NumKey(Acts[b].key)

\* an incremental run that created, updated and flagged
C1_Witness ==
    /\ IncrementalDone
    /\ \A w \in {"update", "create", "flag"} : \E k \in DOMAIN Acts : Acts[k].why = w

\* the decision that set membership gives a key
Classify(key) ==
    IF key \in CurrentKeys /\ key \notin PriorKeys THEN "create"
    ELSE IF key \in CurrentKeys THEN "update" ELSE "flag"

\* the decisions of the run, in the order they were applied
Decisions == [k \in DOMAIN Acts |-> <<Acts[k].why, NumKey(Acts[k].key)>>]

\* C2: a key only in the inventory gets a Create appended to the document, a
\* key in both an Update of the prior entry's block, a key only in the prior
\* map a FlagDeleted of the prior entry's block; the decisions are a function
\* of the inventory and the prior map; current {VM 100, CT 200} against prior
\* {VM 100, VM 999} gives Update(VM 100), Create(CT 200), FlagDeleted(VM 999).
C2_ClassifiedByMembership ==
    IncrementalDone =>
        /\ \A key \in CurrentKeys \cup PriorKeys :
               \E k \in DOMAIN Acts : Decisions[k] = <<Classify(key), key>>
        /\ \A k \in DOMAIN Acts :
               /\ Acts[k].why = Classify(NumKey(Acts[k].key))
               /\ Acts[k].why = "create" => Acts[k].target = 0 /\ Acts[k].pos = "end"
               /\ Acts[k].why \in {"update", "flag"} =>
                      /\ DictHas(existing, Acts[k].key)
                      /\ Acts[k].target = DictGet(existing, Acts[k].key).block_id
                      /\ \E b \in DOMAIN doc0 : doc0[b].id = Acts[k].target
        /\ (CurrentKeys = {KeyVM100, KeyCT200} /\ PriorKeys = {KeyVM100, KeyVM999}) =>
               Decisions = << <<"update", KeyVM100>>, <<"create", KeyCT200>>,
                              <<"flag", KeyVM999>> >>

\* the scenario of the specification has run to its end
C2_Witness ==
    /\ IncrementalDone
    /\ CurrentKeys = {KeyVM100, KeyCT200}
    /\ PriorKeys = {KeyVM100, KeyVM999}
    /\ Len(Acts) = 3

\* the text between the Notes heading of a page and the end of the page
NotesSection(text) ==
    LET hits == {p \in DOMAIN text :
                    p + 3 <= Len(text) /\ SubSeq(text, p, p + 3) = <<"##", SP, "Notes", NL>>}
    IN IF hits = {} \/ text[Len(text)] # NL THEN <<"no Notes section">>
       ELSE SubSeq(text, (CHOOSE p \in hits : \A q \in hits : p <= q) + 4, Len(text) - 1)

\* C3: an Update or FlagDeleted of a key whose prior entry carries an annotation
\* writes a page whose Notes section is exactly that annotation, and the
\* placeholder is not in the page.
C3_AnnotationWrittenVerbatim ==
    \A k \in DOMAIN ops :
        (ops[k].why \in {"update", "flag"} /\ NotesGet(ops[k].key) # <<>>) =>
            /\ NotesSection(ops[k].text) = NotesGet(ops[k].key)
            /\ PLACEHOLDER \notin Range(ops[k].text)
            /\ NotesGet(ops[k].key) = extract_user_notes(BlockKids(doc0, ops[k].target))

\* an Update and a FlagDeleted were both applied with an annotation of two lines
\* and of one line
C3_Witness ==
    /\ IncrementalDone
    /\ \E a, b \in DOMAIN ops :
        /\ ops[a].why = "update" /\ NotesGet(ops[a].key) = <<"keep backups weekly", NL, "rotate monthly">>
        /\ ops[b].why = "flag" /\ NotesGet(ops[b].key) = <<"legacy">>

\* the annotations the document d holds under its resource entries
AnnotationsOf(d) ==
    {extract_user_notes(d[k].kids) : k \in {j \in DOMAIN d : ScanBlock(<<>>, d[j]) # <<>>}}
    \ {<<>>}

\* the lines of ann stand together in the page of some block of d
TextInDoc(d, ann) ==
    LET ls == SplitNL(ann, <<>>)
    IN \E k \in DOMAIN d : \E p \in DOMAIN d[k].kids :
           p + Len(ls) - 1 <= Len(d[k].kids) /\ SubSeq(d[k].kids, p, p + Len(ls) - 1) = ls

\* C4: after every run of sync_incremental, whatever the collaborators did, the
\* annotations that were in the document under a resource entry are still in it.
C4_AnnotationsSurvive ==
    (pc = "done" /\ mode = "incremental") =>
        \A ann \in AnnotationsOf(doc0) : TextInDoc(doc, ann)

\* the prior map was read and is empty: sync_incremental has gone over to sync
FellBack ==
    /\ mode = "incremental" /\ existing = <<>>
    /\ pc \notin {"start", "inc_target", "inc_scan", "inc_notes"}
    /\ \E k \in DOMAIN ops : ops[k].why = "scan"

\* the resources of the fetched inventory
CurrentResources == Range(cluster.vms) \cup Range(cluster.containers)

\* C5: with an empty prior map sync_incremental takes the full-replace path even
\* for a non-empty inventory: the document is cleared before anything is
\* written, every current resource is then created, and there is no Update and
\* no FlagDeleted.
C5_EmptyPriorMapFullReplace ==
    FellBack =>
        /\ pc \notin {"inc_overview", "inc_vms", "inc_cts", "inc_flag"}
        /\ \A k \in DOMAIN ops : ops[k].why \notin {"update", "flag"}
        /\ \A k \in DOMAIN ops : ops[k].op = "insert" =>
               \E j \in 1..(k - 1) : ops[j].op = "clear"
        /\ (pc = "done" /\ \E k \in DOMAIN ops : ops[k].op = "clear") =>
               \A r \in CurrentResources :
                   \E k \in DOMAIN ops : ops[k].why = "create" /\ ops[k].key = resource_id(r)

\* the phase of a decision: current VMs, then current containers, then orphans
Phase(a) == IF a.why = "flag" THEN 3 ELSE IF a.key[1] = "vm" THEN 1 ELSE 2

\* C6: the decisions of an incremental run are applied VMs first, then
\* containers, then orphans, each group in ascending numeric id, whatever the
\* order of the fetch and of the scan.
C6_AscendingIdOrder ==
    IncrementalDone =>
        \A a, b \in DOMAIN Acts : a < b =>
            \/ Phase(Acts[a]) < Phase(Acts[b])
            \/ /\ Phase(Acts[a]) = Phase(Acts[b])
               /\ ToInt(Acts[a].key[2]) < ToInt(Acts[b].key[2])

\* the place of a key in a list of resources, and in the document as scanned
PlaceIn(rs, key) == CHOOSE k \in DOMAIN rs : resource_id(rs[k]) = key

FirstBlockOf(d, key) ==
    LET hits == {k \in DOMAIN d : DictHas(ScanBlock(<<>>, d[k]), key)}
    IN CHOOSE k \in hits : \A j \in hits : k <= j

\* C6 as amended: VMs first, then containers, then orphans; the VMs and the
\* containers in the order the inventory fetch returned them, the orphans in
\* the order in which the scan of the document first met them.
C6_FetchAndScanOrder ==
    IncrementalDone =>
        \A a, b \in DOMAIN Acts : a < b =>
            \/ Phase(Acts[a]) < Phase(Acts[b])
            \/ /\ Phase(Acts[a]) = Phase(Acts[b]) /\ Phase(Acts[a]) = 1
               /\ PlaceIn(inventory.vms, Acts[a].key) < PlaceIn(inventory.vms, Acts[b].key)
            \/ /\ Phase(Acts[a]) = Phase(Acts[b]) /\ Phase(Acts[a]) = 2
               /\ PlaceIn(inventory.containers, Acts[a].key)
                      < PlaceIn(inventory.containers, Acts[b].key)
            \/ /\ Phase(Acts[a]) = Phase(Acts[b]) /\ Phase(Acts[a]) = 3
               /\ FirstBlockOf(doc0, Acts[a].key) < FirstBlockOf(doc0, Acts[b].key)

\* VM 999 was fetched before VM 100 and both were processed, or two orphans
\* stood in the document in descending id
C6_Witness ==
    /\ IncrementalDone
    /\ \E a, b \in DOMAIN Acts :
        /\ a < b /\ Phase(Acts[a]) = Phase(Acts[b])
        /\ ToInt(Acts[a].key[2]) > ToInt(Acts[b].key[2])

\* the numeric id text of the errors recorded by the run
ErrorIds == {result.errors[k][2] : k \in DOMAIN result.errors}

OkCount(why) == Len(SelectSeq(ops, LAMBDA o : o.why = why /\ o.ok))

\* C7: in an incremental run every create, update or flag that fails at the
\* store puts an entry for its resource in the error list and is not counted
\* as done, and the remaining resources are still processed.
C7_FailedOperationRecorded ==
    IncrementalDone =>
        /\ \A k \in DOMAIN ops :
               (ops[k].why \in {"update", "create", "page", "flag"} /\ ~ops[k].ok) =>
                   ops[k].key[2] \in ErrorIds
        /\ result.resources_flagged_deleted = OkCount("flag")
        /\ result.subpages_created = OkCount("page")
        /\ {NumKey(Acts[k].key) : k \in DOMAIN Acts} = CurrentKeys \cup PriorKeys

\* the run got its inventory and its target document
Obtained ==
    \A k \in DOMAIN ops : ops[k].op \in {"fetch", "documents"} => ops[k].ok

\* C8: once inventory and target document are obtained, a run in which at least
\* one create, update or flag succeeded returns success = true.
C8_SuccessIfAnyOperationSucceeded ==
    (pc = "done" /\ Obtained) =>
        ((\E k \in DOMAIN ops : ops[k].why \in {"update", "create", "flag"} /\ ops[k].ok)
            => result.success = TRUE)

\* C9: when the inventory fetch fails the run ends at once with success = false
\* and exactly one error, and nothing is written, cleared or deleted in the store.
C9_FetchFailureIsFatal ==
    (\E k \in DOMAIN ops : ops[k].op = "fetch" /\ ~ops[k].ok) =>
        /\ pc = "done"
        /\ result.success = FALSE
        /\ Len(result.errors) = 1
        /\ \A k \in DOMAIN ops : ops[k].op \notin {"insert", "clear", "delete"}
        /\ doc = doc0

\* the fetch failed in a full run, or in the full run an incremental run fell
\* back to
C9_Witness ==
    /\ pc = "done"
    /\ \E k \in DOMAIN ops : ops[k].op = "fetch" /\ ~ops[k].ok
    /\ mode = "incremental" => Len(ops) > 1

\* C10: no failure of the source or of the store raises out of sync or
\* sync_incremental: the run always returns a result with counts and errors.
C10_AlwaysReturnsResult ==
    /\ raised = FALSE
    /\ pc = "done" =>
        /\ {"success", "errors", "blocks_inserted", "subpages_created"} \subseteq DOMAIN result
        /\ result.success \in BOOLEAN
        /\ result.blocks_inserted >= 0
        /\ Len(result.errors) >= 0

\* a run returned after a read of the document failed
C10_Witness ==
    /\ pc = "done"
    /\ \E k \in DOMAIN ops : ops[k].op = "read" /\ ~ops[k].ok

\* a resource of the inventory with the alerts its metrics give
Evaluated(r) == EvaluateAll(<<r>>, FALSE)[1]

\* the resources the inventory source reports in this run
InventoryResources == Range(inventory.vms) \cup Range(inventory.containers)

\* C11: in every run, full or incremental, each current resource is rendered
\* with the alerts the evaluator derives from its metrics in this run: its page
\* has an alerts section exactly when it has a warning or critical alert, and
\* the overview carries the health summary of the evaluated inventory.
C11_AlertsEvaluatedBeforeRender ==
    /\ \A k \in DOMAIN ops : ops[k].why = "overview" =>
           ops[k].text = format_cluster_overview(evaluate_alerts(inventory))
    /\ \A k \in DOMAIN ops : ops[k].why \in {"update", "page"} =>
           \A r \in InventoryResources : resource_id(r) = ops[k].key =>
               /\ ("**Alerts:**" \in Range(ops[k].text)) <=> has_warnings(Evaluated(r))
               /\ ("ALARM" \in Range(ops[k].text)) <=> has_critical(Evaluated(r))

\* a resource has been evaluated
ResourceEvaluated == pc = "evaluated" /\ inventory.kind \in {"vm", "ct"}

\* the alerts of a type that the evaluator returned
OfType(type) == SelectSeq(result.alerts, LAMBDA a : a.alert_type = type)

\* usage x 100 against the thresholds, in percent: the severity the
\* specification asks for, "none" for no alert
UsageTier(usage, warning, critical) ==
    IF usage = None THEN "none"
    ELSE IF usage * 100 >= critical * Unit THEN "critical"
    ELSE IF usage * 100 >= warning * Unit THEN "warning"
    ELSE "none"

\* exactly one alert of the type with the severity, or none for "none"
OneOfTier(type, tier) ==
    IF tier = "none" THEN OfType(type) = <<>>
    ELSE Len(OfType(type)) = 1 /\ OfType(type)[1].severity = tier

\* C12: for CPU and for memory, usage x 100 at or above the critical threshold
\* gives exactly one critical alert of that type, otherwise at or above the
\* warning threshold exactly one warning, otherwise none; never both; CPU at
\* 96% with thresholds 80/95 gives one critical HIGH_CPU.
C12_UsageTwoTier ==
    ResourceEvaluated =>
        /\ OneOfTier("high_cpu", UsageTier(inventory.subject.cpu_usage, 80, 95))
        /\ OneOfTier("high_memory", UsageTier(inventory.subject.memory_usage, 80, 95))
        /\ inventory.subject.cpu_usage = 960 =>
               OfType("high_cpu") = <<Alert("high_cpu", "critical", 96 * Unit)>>

\* a resource at 96% CPU and 80% memory has been evaluated
C12_Witness ==
    /\ ResourceEvaluated
    /\ inventory.subject.cpu_usage = 960 /\ inventory.subject.memory_usage = 800
    /\ Len(OfType("high_cpu")) = 1 /\ Len(OfType("high_memory")) = 1

\* the backups recorded for the evaluated resource, when they were collected
Backups == inventory.subject.backup_info.backups

BackupsCollected == ResourceEvaluated /\ inventory.subject.backup_info.known

\* C13: a critical NO_BACKUP alert is emitted exactly when the resource has no
\* recorded backup at all; with at least one recorded backup, with or without
\* a timestamp, there is never a NO_BACKUP alert.
C13_NoBackupOnlyWithoutBackups ==
    BackupsCollected =>
        /\ (OfType("no_backup") # <<>>) <=> (Backups = <<>>)
        /\ \A k \in DOMAIN OfType("no_backup") : OfType("no_backup")[k].severity = "critical"
        /\ Len(OfType("no_backup")) <= 1

\* the greatest timestamp among the backups, a missing timestamp counting as 0
MaxTime ==
    LET ts == {IF Backups[k].backup_time = None THEN 0 ELSE Backups[k].backup_time :
                  k \in DOMAIN Backups}
    IN CHOOSE t \in ts : \A u \in ts : u <= t

\* whole days between the most recent backup and now
AgeOfMostRecent == (Now - MaxTime) \div 86400

\* C14: the backup age is the floor of (now - most recent timestamp) / 86400;
\* at or above backup_critical_days it gives a critical OLD_BACKUP, otherwise
\* at or above backup_warning_days a warning OLD_BACKUP, otherwise no backup
\* alert; exactly 30 days old is critical, one second less is a warning.
C14_BackupAgeTiers ==
    (BackupsCollected /\ Backups # <<>> /\ MaxTime > 0) =>
        /\ OfType("no_backup") = <<>>
        /\ OneOfTier("old_backup",
                     IF AgeOfMostRecent >= 30 THEN "critical"
                     ELSE IF AgeOfMostRecent >= 7 THEN "warning" ELSE "none")
        /\ \A k \in DOMAIN OfType("old_backup") :
               OfType("old_backup")[k].value = AgeOfMostRecent
        /\ MaxTime = Now - 30 * 86400 =>
               OfType("old_backup") = <<Alert("old_backup", "critical", 30)>>
        /\ MaxTime = Now - 30 * 86400 + 1 =>
               OfType("old_backup") = <<Alert("old_backup", "warning", 29)>>

\* a resource whose only backup is exactly 30 days old has been evaluated
C14_Witness ==
    /\ BackupsCollected
    /\ Backups = <<Backup(Now - 30 * 86400)>>
    /\ OfType("old_backup") # <<>>

\* C15: the backup used for the age check has the greatest timestamp of the
\* list, whatever the order of the list; a backup without a timestamp counts
\* as 0 and is used only when no backup has a timestamp.
C15_MostRecentBackupChosen ==
    (BackupsCollected /\ Backups # <<>>) =>
        LET used == last_backup(inventory.subject.backup_info)
        IN /\ \E k \in DOMAIN Backups : Backups[k] = used
           /\ (IF used.backup_time = None THEN 0 ELSE used.backup_time) = MaxTime
           /\ used.backup_time = None =>
                  \A k \in DOMAIN Backups : Backups[k].backup_time = None
           /\ MaxTime > 0 =>
                  \A k \in DOMAIN OfType("old_backup") :
                      OfType("old_backup")[k].value = AgeOfMostRecent

\* the most recent backup stood last in the list, after an old one and after
\* one without a timestamp
C15_Witness ==
    /\ BackupsCollected
    /\ Backups \in {<<Backup(Now - 31 * 86400), Backup(Now - 1)>>,
                    <<Backup(None), Backup(Now - 1)>>}
    /\ OfType("old_backup") = <<>>

\* a storage pool has been evaluated
PoolEvaluated == pc = "evaluated" /\ inventory.kind = "pool"

Severities == {result.alerts[k].severity : k \in DOMAIN result.alerts}

\* C17: has_warnings is true exactly when some alert is a warning or critical,
\* has_critical exactly when some alert is critical; has_critical implies
\* has_warnings and a list of info alerts only sets neither flag.
C17_FlagsFollowAlerts ==
    pc = "read" =>
        /\ result.has_warnings <=> (Severities \cap {"warning", "critical"} # {})
        /\ result.has_critical <=> ("critical" \in Severities)
        /\ result.has_critical => result.has_warnings
        /\ Severities \subseteq {"info"} => ~result.has_warnings /\ ~result.has_critical

\* the flags of a resource holding only an info alert have been read
C17_Witness ==
    /\ pc = "read"
    /\ Severities = {"info"}

\* the prior-entry scan of an incremental run is over
ScanDone ==
    /\ mode = "incremental"
    /\ \E k \in DOMAIN ops : ops[k].why = "scan" /\ ops[k].ok

\* the text of a block contains the marker followed by digits
HasPattern(b, marker) == b.md # UNREADABLE /\ RegexId(b.md, marker) # ""

\* every block of the document the reader was given is readable
AllReadable == \A k \in DOMAIN doc0 : doc0[k].md # UNREADABLE

\* C18: the reader takes a top-level block as a VM entry whenever its text
\* contains "VMID: <digits>" and as a container entry whenever it contains
\* "CTID: <digits>", with the first digit run as the id; a block matching
\* neither pattern yields no prior entry.
C18_MarkersRecognised ==
    (ScanDone /\ AllReadable) =>
        /\ \A k \in DOMAIN doc0 :
            /\ HasPattern(doc0[k], "VMID:") =>
                   DictHas(existing, <<"vm", RegexId(doc0[k].md, "VMID:")>>)
            /\ HasPattern(doc0[k], "CTID:") =>
                   DictHas(existing, <<"ct", RegexId(doc0[k].md, "CTID:")>>)
        /\ \A e \in DOMAIN existing :
               \E k \in DOMAIN doc0 :
                   /\ doc0[k].id = existing[e].block_id
                   /\ HasPattern(doc0[k], Marker(existing[e].key[1]))
                   /\ RegexId(doc0[k].md, Marker(existing[e].key[1])) = existing[e].key[2]

\* C19: an unreadable block met during the scan is skipped without aborting
\* the run, and every well-formed resource block of the document, before or
\* after it, is still in the prior map.
C19_UnreadableBlockSkipped ==
    ScanDone =>
        /\ raised = FALSE
        /\ \A k \in DOMAIN doc0 :
               (doc0[k].md # UNREADABLE /\ ScanBlock(<<>>, doc0[k]) # <<>>) =>
                   DictHas(existing, ScanBlock(<<>>, doc0[k])[1].key)

\* a line is a heading of any level
IsHeading(line) == line # <<>> /\ line[1] \in HashRuns

\* a line is the Notes heading
IsNotes(line) == IsHeading(line) /\ SubSeq(line, 2, Len(line)) = <<SP, "Notes">>

\* the lines after the first Notes heading and before the next heading
RECURSIVE UpToHeading(_)
UpToHeading(lines) ==
    IF lines = <<>> \/ IsHeading(Head(lines)) THEN <<>>
    ELSE <<Head(lines)>> \o UpToHeading(Tail(lines))

RECURSIVE AfterNotes(_)
AfterNotes(lines) ==
    IF lines = <<>> THEN <<>>
    ELSE IF IsNotes(Head(lines)) THEN UpToHeading(Tail(lines))
    ELSE AfterNotes(Tail(lines))

\* the annotation the specification reads from a page: those lines without
\* the placeholder, joined in order
Annotation(kids) ==
    JoinNL(SelectSeq(AfterNotes(kids), LAMBDA line : line # <<PLACEHOLDER>>))

\* the notes of every prior entry have been read
NotesRead ==
    /\ ScanDone
    /\ pc \notin {"inc_scan", "inc_notes"}

\* C20: the annotation read for a prior entry is the text lines after the
\* Notes heading up to the first subsequent heading of any kind, joined in
\* order, without the placeholder; a Notes section with only the placeholder
\* or nothing yields no annotation, and then the next Update keeps the
\* placeholder.
C20_AnnotationIsNotesSection ==
    NotesRead =>
        /\ \A e \in DOMAIN existing :
               NotesGet(existing[e].key) = Annotation(BlockKids(doc0, existing[e].block_id))
        /\ \A k \in DOMAIN ops :
               (ops[k].why = "update" /\ Annotation(BlockKids(doc0, ops[k].target)) = <<>>)
                   => PLACEHOLDER \in Range(ops[k].text)

\* the name a prior entry shows: the heading text before " (", after the icon
EntryNames == {"web", "web-old", "db", "old", "legacy"}

ShownName(md) ==
    CHOOSE nm \in EntryNames :
        \E icon \in {<<>>, <<"WARN", SP>>, <<"ALARM", SP>>} :
            LET head == <<"###", SP>> \o icon \o <<nm, SP, "(">>
            IN Len(md) >= Len(head) /\ SubSeq(md, 1, Len(head)) = head

\* the tokens of part stand together in text
Contains(text, part) ==
    \E p \in DOMAIN text :
        p + Len(part) - 1 <= Len(text) /\ SubSeq(text, p, p + Len(part) - 1) = part

\* the top-level block of the document the run was given that has the id
PriorBlock(bid) == doc0[CHOOSE k \in DOMAIN doc0 : doc0[k].id = bid]

\* the first line of a page
FirstLine(text) == SplitNL(text, <<>>)[1]

\* C21: the page of a FlagDeleted says the resource no longer exists, gives
\* the time of the run, says the notes were preserved, and shows the original
\* kind, the numeric id and the display name of the prior entry; the page of
\* an Update shows the current name of the resource, not the prior one.
C21_DeletedPageContent ==
    \A k \in DOMAIN ops :
        /\ ops[k].why = "flag" =>
            LET kind == ops[k].key[1]
                name == ShownName(PriorBlock(ops[k].target).md)
            IN /\ Contains(ops[k].text, <<"**RESOURCE NO LONGER EXISTS**">>)
               /\ Contains(ops[k].text,
                           <<"was not found in Proxmox during the last sync on", SP, "NOW">>)
               /\ Contains(ops[k].text, <<"**Your notes below have been preserved.**">>)
               /\ Contains(ops[k].text,
                           <<"Type:", "**", SP,
                             IF kind = "vm" THEN "Virtual Machine" ELSE "LXC Container">>)
               /\ Contains(ops[k].text, <<Marker(kind), "**", SP, ops[k].key[2], NL>>)
               /\ Contains(ops[k].text, <<"(", "ID:", SP, ops[k].key[2], ")">>)
               /\ FirstLine(ops[k].text) = <<"#", SP, "WARN", SP, name, SP, "(", "Deleted", ")">>
        /\ ops[k].why = "update" =>
            \A r \in InventoryResources : resource_id(r) = ops[k].key =>
                /\ \E icon \in {<<>>, <<"WARN", SP>>, <<"ALARM", SP>>} :
                       FirstLine(ops[k].text) = <<"#", SP>> \o icon \o <<r.name>>
                /\ ShownName(PriorBlock(ops[k].target).md) # r.name =>
                       ShownName(PriorBlock(ops[k].target).md) \notin Range(ops[k].text)

\* a container that is gone was flagged under its prior name and the renamed
\* VM was updated in the same run
C21_Witness ==
    /\ pc = "done"
    /\ \E k \in DOMAIN ops :
           /\ ops[k].why = "flag" /\ ops[k].key = <<"ct", "999">>
           /\ Contains(ops[k].text, <<"legacy", SP, "(", "Deleted", ")">>)
    /\ \E k \in DOMAIN ops :
           /\ ops[k].why = "update"
           /\ PriorBlock(ops[k].target).md = RenamedMd

\* a full sync grouped by tag has returned
TagSyncDone == pc = "done" /\ mode = "full" /\ config.group_by = "tag"

\* the labels of a resource of the inventory: the tags of its tags string
LabelsOf(r) == Range(r.tags) \ {";", SP}

\* the label of a tag header written to the document
HeaderLabel(text) == text[(CHOOSE p \in DOMAIN text : text[p] = "Tag:") + 2]

\* the label of the bucket an entry of the history was published in: that of
\* the last tag header before it
BucketAt(k) ==
    LET hs == {j \in 1..(k - 1) : ops[j].why = "tag"}
    IN HeaderLabel(ops[CHOOSE j \in hs : \A h \in hs : h <= j].text)

\* how often the resource was published in the bucket of the label
Appearances(r, label) ==
    Cardinality({k \in DOMAIN ops :
                    /\ ops[k].why = "create" /\ ops[k].key = resource_id(r)
                    /\ BucketAt(k) = label})

AllLabels == UNION {LabelsOf(r) : r \in InventoryResources} \cup {"Untagged"}

\* C22: grouped by label, a resource with labels is published in the bucket
\* of each of its labels, once in each, in no other bucket and never in the
\* Untagged bucket; a resource without labels is published once in the
\* Untagged bucket and in no other.
C22_LabelFanOut ==
    TagSyncDone =>
        \A r \in InventoryResources :
            IF LabelsOf(r) = {}
            THEN \A label \in AllLabels :
                     Appearances(r, label) = IF label = "Untagged" THEN 1 ELSE 0
            ELSE /\ \A label \in AllLabels \ {"Untagged"} :
                        Appearances(r, label) = IF label \in LabelsOf(r) THEN 1 ELSE 0
                 /\ Appearances(r, "Untagged") = 0

\* the labels of the buckets in the order they were published
PublishedLabels ==
    LET hs == SelectSeq(ops, LAMBDA o : o.why = "tag")
    IN [k \in DOMAIN hs |-> HeaderLabel(hs[k].text)]

\* the inventory with its VMs and containers in the opposite order
Reversed(rs) == [k \in DOMAIN rs |-> rs[Len(rs) + 1 - k]]

OtherFetchOrder ==
    [inventory EXCEPT !.vms = Reversed(@), !.containers = Reversed(@)]

\* the labels of the buckets a fetch of the inventory in that order gives
LabelsFor(inv) ==
    LET gs == tag_groups(get_cluster(inv, config.include_stopped))
    IN [k \in DOMAIN gs |-> gs[k].key]

\* C23: grouped by label, the buckets are published in case-insensitive
\* alphabetical order of their labels with Untagged last, also when a label
\* sorts after "Untagged", and in the same order whatever the order in which
\* the resources were fetched.
C23_BucketOrder ==
    TagSyncDone =>
        /\ \A a, b \in DOMAIN PublishedLabels : a < b =>
               /\ PublishedLabels[a] # "Untagged"
               /\ PublishedLabels[b] # "Untagged" =>
                      AlphaRank(Lower(PublishedLabels[a])) <= AlphaRank(Lower(PublishedLabels[b]))
        /\ PublishedLabels = LabelsFor(OtherFetchOrder)

\* C24: with group_by "none" a full sync publishes every current VM and
\* container in one bucket and writes no node, label or status header.
C24_NoneIsOneBucket ==
    (pc = "done" /\ mode = "full" /\ config.group_by = "none") =>
        /\ \A k \in DOMAIN ops : ops[k].why \notin {"node", "tag", "status"}
        /\ \A r \in Range(cluster.vms) \cup Range(cluster.containers) :
               \E k \in DOMAIN ops : ops[k].why = "create" /\ ops[k].key = resource_id(r)

FullSyncDone ==
    /\ pc = "done"
    /\ \E k \in DOMAIN ops : ops[k].why = "overview" /\ ops[k].op = "insert"
    /\ \A k \in DOMAIN ops : ops[k].why \notin {"update", "flag"}
    /\ \E k \in DOMAIN ops : ops[k].op = "clear"

\* C26: in a full sync a Create is attempted for every resource of the current
\* inventory: no failed write (a group header, a section heading, another
\* resource's page) suppresses it, and no resource is left out because of its
\* node.
C26_CreateAttemptedForAll ==
    FullSyncDone =>
        \A r \in CurrentResources :
            \E k \in DOMAIN ops :
                ops[k].op = "insert" /\ ops[k].why = "create" /\ ops[k].key = resource_id(r)

\* an incremental run whose prior map is not empty
IncrementalWithPriorMap == mode = "incremental" /\ existing # <<>>

IsPrefix(s, t) == Len(s) <= Len(t) /\ SubSeq(t, 1, Len(s)) = s

\* block b of the document before the run is still in the document: same
\* identifier, same markdown, and its page still starts with what it held
StillExists(b) ==
    \E k \in DOMAIN doc :
        doc[k].id = b.id /\ doc[k].md = b.md /\ IsPrefix(b.kids, doc[k].kids)

RecognisedAs(text, key) == DictHas(ScanBlock(<<>>, [id |-> 1, md |-> text, kids |-> <<>>]), key)

\* the pages written for a key: the detail page of a Create or an Update, the
\* flagged-deleted page
PageWrites == {k \in DOMAIN ops : ops[k].why \in {"page", "update", "flag"} /\ ops[k].ok}

\* C28: every page the engine writes for a resource key (detail page or
\* flagged-deleted page) is recognised by the reader's marker scan as an entry
\* of that kind and id, and once the run has ended a scan of the document
\* finds the key as a prior entry.
C28_WrittenPagesRecognised ==
    \A k \in PageWrites :
        /\ RecognisedAs(ops[k].text, ops[k].key)
        /\ pc = "done" => DictHas(find_existing_resource_blocks(doc), ops[k].key)

\* the place of an alert type in the order CPU, memory, backup, stopped
TypeRank(type) ==
    CASE type = "high_cpu" -> 1
      [] type = "high_memory" -> 2
      [] type \in {"no_backup", "old_backup"} -> 3
      [] type = "stopped" -> 4
      [] OTHER -> 5

\* C29: evaluate_vm and evaluate_container are the same function of the
\* metrics: the alerts of an evaluated VM or container are what either of them
\* returns for its CPU usage, memory usage, backup information and status, in
\* the order CPU, memory, backup, stopped, at most one alert per type and
\* never both NO_BACKUP and OLD_BACKUP.
C29_SameEvaluatorForBothKinds ==
    (pc \in {"evaluated", "read"} /\ inventory.kind \in {"vm", "ct"}) =>
        /\ result.alerts = evaluate_vm(inventory.subject, inventory.alert_on_stopped)
        /\ result.alerts = evaluate_container(inventory.subject, inventory.alert_on_stopped)
        /\ \A a, b \in DOMAIN result.alerts :
               a < b => TypeRank(result.alerts[a].alert_type) < TypeRank(result.alerts[b].alert_type)
        /\ \A a \in DOMAIN result.alerts : TypeRank(result.alerts[a].alert_type) <= 4

\* a stopped container with high CPU, high memory and an old backup was
\* evaluated: one alert of each of the four groups
C29_Witness ==
    /\ pc = "evaluated"
    /\ inventory.kind = "ct"
    /\ Len(result.alerts) = 4
    /\ result.alerts[3].alert_type = "old_backup"

\* the inventory was fetched with include_stopped off
FetchedWithoutStopped ==
    /\ ~config.include_stopped
    /\ \E k \in DOMAIN ops : ops[k].op = "fetch" /\ ops[k].ok

\* the resources Proxmox holds
HeldResources == Range(inventory.vms) \cup Range(inventory.containers)

\* C30: with include_stopped off the fetched snapshot omits exactly the stopped
\* resources: a VM or container in any other status (running, paused,
\* suspended, unknown) is kept, and an incremental run does not flag it deleted.
C30_OnlyStoppedOmitted ==
    FetchedWithoutStopped =>
        /\ \A r \in HeldResources :
               r.status # "stopped" <=>
                   \E c \in CurrentResources : resource_id(c) = resource_id(r)
        /\ \A r \in HeldResources :
               r.status # "stopped" =>
                   \A k \in DOMAIN ops : ~(ops[k].why = "flag" /\ ops[k].key = resource_id(r))

====
